---- MODULE Spec2Model ----
(***************************************************************************)
(* Media asset pipeline of VibeDocServer: speech synthesis                 *)
(* (AudioProcessor), clip assembly and concatenation (VideoComposer,       *)
(* FastVideoComposer), diagram/markdown rendering (AssetRenderer) and the  *)
(* three-phase orchestrator (VideoGenerator).                              *)
(*                                                                         *)
(* Three specifications share the variables; each one drives one           *)
(* component and leaves the others in their initial state:                 *)
(*   SpecCompose  AudioProcessor.generate_audio_tracks followed by         *)
(*                compose_video of either composer                         *)
(*   SpecRender   AssetRenderer.render_mermaid / render_markdown           *)
(*   SpecOrch     VideoGenerator.generate_video and its event stream       *)
(* External tools (ffmpeg, ffprobe, mmdc, the browser, the voice service)  *)
(* are nondeterministic: every exit code they can produce is explored.     *)
(***************************************************************************)
EXTENDS Integers, Sequences, FiniteSets, TLC

(***************************************************************************)
(* Bounds of the model                                                     *)
(***************************************************************************)
MaxDialogues == 3
ClusterSize == 2
MaxAudioDur == 3
RecursionLimit == 4
MaxRenderCalls == 2
MaxViz == 2
MaxLines == 6
MaxTasks == 6
MaxCarriers == 3
MaxSubscribers == 2
MaxPublishers == 1

\* asyncio.Queue(maxsize=100), progress_observer.py line 52, scaled down.
QueueMaxSize == 1
MaxContentLen == 2
MaxCallers == 2

(***************************************************************************)
(* Program constants                                                       *)
(***************************************************************************)
ApiSemaphoreSize == 5
RenderSemaphoreSize == 5
BatchSize == 5

VARIABLES
    \* ---- AudioProcessor.generate_audio_tracks
    aPc,            \* "start" | "gather" | "returned" | "raised"
    batchStart,     \* loop variable i of the batch loop (1-based)
    taskSt,         \* per dialogue: state of its _generate_single_audio task
    taskDur,        \* per dialogue: duration measured for its track (0 = none)
    apiPermits,     \* free permits of api_semaphore
    audioCache,     \* cache keys that have a file in the audio cache directory
    results,        \* the insertion-ordered dict results: <<[id, dur]>>
    finishOrder,    \* dialogue ids in the order their tasks finished
    \* ---- compose_video
    composer,       \* "fast" (FastVideoComposer) | "moviepy" (VideoComposer)
    quality,        \* settings.get('quality', 'balanced')
    cPc,            \* "idle" | "loop" | "dispatch" | "concat" | "export"
                    \* | "extract" | "returned" | "raised"
    k,              \* position of the dialogue loop in the script
    attempted,      \* dialogue ids handed to the clip assembler, in order
    clip_paths,     \* the clips collected for concatenation: <<[id, dur, audio]>>
    tempDir,        \* TRUE while the run's temporary directory exists
    frame,          \* innermost active concatenation frame: "none" | "copy" | "smart" | "reencode"
    depth,          \* number of nested _concatenate_* frames
    concatLog,      \* what the concatenation did so far, in order
    concat_file,    \* content of concat_list.txt (clip ids), <<>> before it is written
    extracted,      \* "none" | "ok" | "failed": the audio-only extraction
    \* ---- AssetRenderer
    rStack,         \* active render_mermaid / render_markdown calls, innermost last
    rRet,           \* what the call that just ended handed to its caller
    rResult,        \* outcome of the last top-level render call
    rReq,           \* the top-level request being served ("none" before the first)
    rCalls,         \* number of top-level render calls made so far
    imageCache,     \* cache keys that have a file in the image cache directory
    engineCalls,    \* diagram-engine (mmdc) invocations of the current top-level call
    engineFailed,   \* the engine exited nonzero during the current top-level call
    browserFailed,  \* the browser render raised during the current top-level call
    recursionError, \* the interpreter raised RecursionError during the current call
    \* ---- VideoGenerator.generate_video
    oPc,            \* position of generate_video
    current_phase,  \* self._current_phase ("unset" while the attribute does not exist)
    events,         \* the events published for the task (progress_observer.notify calls)
    vizSt,          \* per visualization: state of its render_with_progress task
    doneQueue,      \* finished render tasks in completion order, not yet consumed
    renderPermits,  \* free permits of the render semaphore
    visual_assets,  \* the dict visual_assets: <<[id, asset]>>
    rendered,       \* the counter rendered
    audioIdx,       \* script position the synthesis result loop has reached
    tracks,         \* dialogue ids that have an audio track
    composeIdx,     \* script position the composer has reached
    outcome,        \* "running" | "returned" | "raised"
    cleanups,       \* number of cleanup_task tasks scheduled
    failedAt,       \* where the exception escaped: "none" | "pre" | a phase | "post"
    podcast,        \* the audio-only extraction of compose_video: "none" | "ok" | "failed"
    \* ---- the synthesis fan-out of generate_audio_tracks, durations left out
    sPc,            \* "start" | "gather" | "returned"
    sBatch,         \* loop variable i of the batch loop (1-based)
    sSt,            \* per line: state of its _generate_single_audio task
    sPermits,       \* free permits of api_semaphore
    sDone,          \* the lines in the order their tasks ended
    sReported,      \* the calls of progress_callback: <<[item, current]>>
    \* ---- the render fan-out of _render_assets_phase at more than 5 tasks
    pSt,            \* per render task: "queued" | "rendering" | "fallback" | "finished"
    pPermits,       \* free permits of the render semaphore
    \* ---- _extract_unique_visualizations and the creation of the render tasks
    xDoc,           \* the carriers of the document (cluster, dialogues) in document order
    xPc,            \* "loaded" | "extracted" | "tasks"
    xViz,           \* the dict visualizations: <<[id, viz]>> in insertion order
    xTasks,         \* the render tasks created: <<[id, viz]>>
    \* ---- VideoProgressObserver, for one task id
    lock,           \* holder of self._lock: 0 (free) or the subscriber inside subscribe
    hasObservers,   \* task_id in self._observers
    observers,      \* self._observers[task_id]: the list of queues (<<>> if no entry)
    hasState,       \* task_id in self._task_states
    task_state,     \* self._task_states[task_id]: [status, progress]
    queue,          \* per queue: the messages in it, oldest first
    placed,         \* per queue: the first message ever put into it ("none" before)
    subPc,          \* per subscriber: "idle" | "greeting" | "subscribed" | "closed"
    pubPc,          \* per notify call: "idle" | "delivering" | "done"
    pubSnap,        \* per notify call in progress: the queues of its snapshot (line 86)
    pubPending,     \* per notify call in progress: queues whose _notify_single has not ended
    pubDelivered,   \* per notify call in progress: queues that took the message
    pubAbandoned,   \* per notify call in progress: queues given up after the timeout
    cleanupPc,      \* cleanup_task: "sleeping" | "notifying" | "done"
    discarded,      \* the queues of the deleted registry entry that the snapshot of
                    \* the stream_end notification did not contain
    \* ---- the cache keys of two requests to the same cache
    kPair,          \* <<first request, second request>>
    kPc,            \* "fresh" | "stored" | "done"
    kFiles,         \* the file names present in the cache directory
    kSecond,        \* what the lookup of the second request gave: "none" | "hit" | "miss"
    \* ---- concurrent calls of the cached producers on the cache directories
    files,          \* per cache file: "absent" | "partial" | "raw" | "final" | "renormalized"
    stReq,          \* per call: its request (NoRequest before the call)
    stPc,           \* per call: "idle" | "tool" | "resuming" | "probing" | "returned" |
                    \*           "failed" | "fallback"
    stWrote,        \* per call: its tool has created the output file
    stHit,          \* per call: the lookup found the file
    stGot,          \* per call: the state of the file when its path was returned
    ePc,            \* the re-encode branch: "idle" | "reencode" | "detected" | "returned" | "raised"
    encoders,       \* the encoder names that "ffmpeg -encoders" prints on this machine
    devices,        \* the hardware encoders whose device this machine has
    hw_accel,       \* the local hw_accel ("unset" before the detection)
    codec,          \* the -c:v argument of the ffmpeg command ("none" before it is built)
    spkPc,          \* one dialogue on its way: "script" | "voiced" | "shown"
    speaker_name,   \* the 'speaker' value of the dialogue (NoSpeaker: the key is missing)
    dialogue_idx,   \* the position of the dialogue in its cluster, from 0
    hasVisualization, \* the dialogue has a 'visualization'
    spkComposer,    \* the composer of the run: "fast" | "moviepy"
    voiceSpeaker,   \* the speaker AudioProcessor chose the voice for ("none" before)
    indicatorSpeaker \* the speaker handed to the renderer of the indicator ("none": no indicator)

audioVars == <<aPc, batchStart, taskSt, taskDur, apiPermits, audioCache, results, finishOrder>>
composeVars == <<composer, quality, cPc, k, attempted, clip_paths, tempDir, frame, depth,
                 concatLog, concat_file, extracted>>
renderVars == <<rStack, rRet, rResult, rReq, rCalls, imageCache, engineCalls, engineFailed,
                browserFailed, recursionError>>
orchVars == <<oPc, current_phase, events, vizSt, doneQueue, renderPermits, visual_assets,
              rendered, audioIdx, tracks, composeIdx, outcome, cleanups, failedAt, podcast>>
synthVars == <<sPc, sBatch, sSt, sPermits, sDone, sReported>>
poolVars == <<pSt, pPermits>>
extractVars == <<xDoc, xPc, xViz, xTasks>>
obsVars == <<lock, hasObservers, observers, hasState, task_state, queue, placed, subPc, pubPc,
             pubSnap, pubPending, pubDelivered, pubAbandoned, cleanupPc, discarded>>
keyVars == <<kPair, kPc, kFiles, kSecond>>
storeVars == <<files, stReq, stPc, stWrote, stHit, stGot>>
encVars == <<ePc, encoders, devices, hw_accel, codec>>
spkVars == <<spkPc, speaker_name, dialogue_idx, hasVisualization, spkComposer, voiceSpeaker,
             indicatorSpeaker>>
vars == <<audioVars, composeVars, renderVars, orchVars, synthVars, poolVars, extractVars,
          obsVars, keyVars, storeVars, encVars, spkVars>>

\* What the actions of one component leave alone.
outsideCompose == <<renderVars, orchVars, synthVars, poolVars, extractVars, obsVars,
    keyVars, storeVars, encVars, spkVars>>
outsideRender == <<audioVars, composeVars, orchVars, synthVars, poolVars, extractVars, obsVars,
    keyVars, storeVars, encVars, spkVars>>
outsideOrch == <<audioVars, composeVars, renderVars, synthVars, poolVars, extractVars, obsVars,
    keyVars, storeVars, encVars, spkVars>>
outsideSynth == <<audioVars, composeVars, renderVars, orchVars, poolVars, extractVars, obsVars,
    keyVars, storeVars, encVars, spkVars>>
outsidePool == <<audioVars, composeVars, renderVars, orchVars, synthVars, extractVars, obsVars,
    keyVars, storeVars, encVars, spkVars>>
outsideExtract == <<audioVars, composeVars, renderVars, orchVars, synthVars, poolVars, obsVars,
    keyVars, storeVars, encVars, spkVars>>
outsideObs == <<audioVars, composeVars, renderVars, orchVars, synthVars, poolVars, extractVars,
    keyVars, storeVars, encVars, spkVars>>
outsideKeys == <<audioVars, composeVars, renderVars, orchVars, synthVars, poolVars, extractVars,
    obsVars, storeVars, encVars, spkVars>>
outsideStore == <<audioVars, composeVars, renderVars, orchVars, synthVars, poolVars, extractVars,
    obsVars, keyVars, encVars, spkVars>>
outsideEnc == <<audioVars, composeVars, renderVars, orchVars, synthVars, poolVars, extractVars,
    obsVars, keyVars, storeVars, spkVars>>
outsideSpk == <<audioVars, composeVars, renderVars, orchVars, synthVars, poolVars, extractVars,
    obsVars, keyVars, storeVars, encVars>>

(***************************************************************************)
(* The podcast document                                                    *)
(***************************************************************************)
DialogueIds == 1..MaxDialogues

\* The dialogues of the document in script order (cluster order, then
\* dialogue order within the cluster); dialogue ids are assigned upstream.
Script == [i \in 1..MaxDialogues |-> i]

ClusterOf(d) == (d - 1) \div ClusterSize
IdxInCluster(d) == (d - 1) % ClusterSize

\* Text of a dialogue line: lines 1 and 3 carry the same text.
TextOf(d) == IF d % 2 = 1 THEN "textA" ELSE "textB"

Range(s) == {s[i] : i \in 1..Len(s)}
Ids(s) == {s[i].id : i \in 1..Len(s)}
IdSeq(s) == [i \in 1..Len(s) |-> s[i].id]
Min2(a, b) == IF a < b THEN a ELSE b
Min3(a, b, c) == Min2(a, Min2(b, c))

\* Position of id d in a sequence of ids (0 when absent).
PosIn(s, d) == IF \E i \in 1..Len(s) : s[i] = d
               THEN CHOOSE i \in 1..Len(s) : s[i] = d
               ELSE 0

(***************************************************************************)
(* AudioProcessor                                                          *)
(***************************************************************************)
\* generate_audio_tracks lines 83-92: speaker of a dialogue whose speaker
\* name is none of the mapped names.
SpeakerOf(d) == IF IdxInCluster(d) % 2 = 0 THEN "speaker_1" ELSE "speaker_2"

VoiceOf(d) == IF SpeakerOf(d) = "speaker_1" THEN "voice_1" ELSE "voice_2"

\* _get_cache_key: "<dialogue_id>_<sha256(voice:text)>"
AudioCacheKey(d) == <<d, <<VoiceOf(d), TextOf(d)>>>>

\* The batch starting at position i: dialogues[i:i+batch_size]
Batch(i) == {Script[j] : j \in {j \in 1..MaxDialogues : j >= i /\ j < i + BatchSize}}

TaskDone(d) == taskSt[d] \in {"ok", "failed"}

\* Durations that the probe of an audio file can report, and native
\* durations of a video visual (shorter, equal and longer than the audio).
AudioDurs == {MaxAudioDur - 1, MaxAudioDur}
VisualDurs == (MaxAudioDur - 2)..(MaxAudioDur + 1)

\* asyncio.gather(*tasks, return_exceptions=True), line 121: a failed task
\* is returned as a value; the gather itself never raises.
GatherPropagates(failed) == failed # {}
GatherRaises(failed) == FALSE

\* Lines 123-134: the results of one batch are stored in batch order; a
\* failed line is skipped.
RECURSIVE CollectFrom(_, _, _, _)
CollectFrom(res, j, st, dur) ==
    IF j > MaxDialogues \/ j >= batchStart + BatchSize THEN res
    ELSE IF st[Script[j]] = "ok"
         THEN CollectFrom(Append(res, [id |-> Script[j], dur |-> dur[Script[j]]]), j + 1, st, dur)
         ELSE CollectFrom(res, j + 1, st, dur)

StartBatch ==
    /\ aPc = "start"
    /\ batchStart <= MaxDialogues
    /\ taskSt' = [d \in DialogueIds |-> IF d \in Batch(batchStart) THEN "pending" ELSE taskSt[d]]
    /\ aPc' = "gather"
    /\ UNCHANGED <<batchStart, taskDur, apiPermits, audioCache, results, finishOrder, composeVars, outsideCompose>>

\* _generate_single_audio lines 146-153: cache hit, the duration is probed
\* from the cached file.
TaskCacheHit(d) ==
    /\ taskSt[d] = "pending"
    /\ AudioCacheKey(d) \in audioCache
    /\ \E a \in AudioDurs : taskDur' = [taskDur EXCEPT ![d] = a]
    /\ taskSt' = [taskSt EXCEPT ![d] = "ok"]
    /\ finishOrder' = Append(finishOrder, d)
    /\ UNCHANGED <<aPc, batchStart, apiPermits, audioCache, results, composeVars, outsideCompose>>

TaskCacheMiss(d) ==
    /\ taskSt[d] = "pending"
    /\ AudioCacheKey(d) \notin audioCache
    /\ taskSt' = [taskSt EXCEPT ![d] = "waiting"]
    /\ UNCHANGED <<aPc, batchStart, taskDur, apiPermits, audioCache, results, finishOrder, composeVars, outsideCompose>>

\* line 158: async with self.api_semaphore
TaskAcquire(d) ==
    /\ taskSt[d] = "waiting"
    /\ apiPermits > 0
    /\ apiPermits' = apiPermits - 1
    /\ taskSt' = [taskSt EXCEPT ![d] = "inflight"]
    /\ UNCHANGED <<aPc, batchStart, taskDur, audioCache, results, finishOrder, composeVars, outsideCompose>>

\* lines 178-192: status 200, the file is written and its duration probed.
TaskSucceed(d) ==
    /\ taskSt[d] = "inflight"
    /\ \E a \in AudioDurs : taskDur' = [taskDur EXCEPT ![d] = a]
    /\ audioCache' = audioCache \cup {AudioCacheKey(d)}
    /\ taskSt' = [taskSt EXCEPT ![d] = "ok"]
    /\ apiPermits' = apiPermits + 1
    /\ finishOrder' = Append(finishOrder, d)
    /\ UNCHANGED <<aPc, batchStart, results, composeVars, outsideCompose>>

\* lines 179-181, 194-196: the request fails and the task raises.
TaskFail(d) ==
    /\ taskSt[d] = "inflight"
    /\ taskSt' = [taskSt EXCEPT ![d] = "failed"]
    /\ apiPermits' = apiPermits + 1
    /\ finishOrder' = Append(finishOrder, d)
    /\ UNCHANGED <<aPc, batchStart, taskDur, audioCache, results, composeVars, outsideCompose>>

\* lines 121-134: the gather returns when every task of the batch is done.
CollectBatch ==
    /\ aPc = "gather"
    /\ \A d \in Batch(batchStart) : TaskDone(d)
    /\ IF GatherRaises({d \in Batch(batchStart) : taskSt[d] = "failed"})
       THEN /\ aPc' = "raised"
            /\ UNCHANGED <<batchStart, results>>
       ELSE /\ results' = CollectFrom(results, batchStart, taskSt, taskDur)
            /\ batchStart' = batchStart + BatchSize
            /\ aPc' = "start"
    /\ UNCHANGED <<taskSt, taskDur, apiPermits, audioCache, finishOrder, composeVars, outsideCompose>>

\* lines 136-137
AudioReturn ==
    /\ aPc = "start"
    /\ batchStart > MaxDialogues
    /\ aPc' = "returned"
    /\ UNCHANGED <<batchStart, taskSt, taskDur, apiPermits, audioCache, results, finishOrder, composeVars, outsideCompose>>

AudioInit ==
    /\ aPc = "start"
    /\ batchStart = 1
    /\ taskSt = [d \in DialogueIds |-> "none"]
    /\ taskDur = [d \in DialogueIds |-> 0]
    /\ apiPermits = ApiSemaphoreSize
    /\ audioCache \in {{}, {AudioCacheKey(1)}}
    /\ results = <<>>
    /\ finishOrder = <<>>

(***************************************************************************)
(* Clip assembly                                                           *)
(***************************************************************************)
\* The visual handed to the assembler: a still image, or a video clip of
\* native duration vdur (animated renderer output).
Visuals == {[kind |-> "image", vdur |-> 0]} \cup
           {[kind |-> "video", vdur |-> v] : v \in VisualDurs}

\* FastVideoComposer._create_clip_with_audio: the duration of the file that
\* ffmpeg writes.  Video input: "-t duration ... -shortest" ends the output
\* with the shortest of the video stream, the audio stream and the -t limit.
\* Image input: "-loop 1" repeats the image without end and "-t duration"
\* cuts the output.
FfmpegClipDuration(visual, duration) ==
    IF visual.kind = "video"
    THEN Min3(visual.vdur, duration, duration)
    ELSE duration

\* VideoComposer._create_dialogue_clip lines 266-280.
MoviepyClipDuration(visual, duration) ==
    IF visual.kind = "video"
    THEN IF visual.vdur # duration
         THEN IF visual.vdur > duration
              THEN duration          \* subclip(0, duration)
              ELSE duration          \* loop(duration=duration)
         ELSE visual.vdur
    ELSE duration                    \* ImageClip(..., duration=duration)

ClipDuration(visual, duration) ==
    IF composer = "fast" THEN FfmpegClipDuration(visual, duration)
    ELSE MoviepyClipDuration(visual, duration)

\* compose_video lines 58-59: the loop enumerates the clusters and the
\* dialogues of the document; the completion order of the asynchronous
\* operations is not consulted.
IterationByCompletion(script, completion) == completion
IterationOrder(script, completion) == script

DurOf(res, d) == (CHOOSE r \in Range(res) : r.id = d).dur

CurrentDialogue == IterationOrder(Script, finishOrder)[k]

\* compose_video lines 135-139: the finally clause removes the temporary
\* directory when the try block returns and when it raises.
RemovedOnReturnOnly(exists, raising) == exists /\ raising
TempDirAfter(exists, raising) == FALSE

ComposeRaise ==
    /\ cPc' = "raised"
    /\ tempDir' = TempDirAfter(tempDir, TRUE)

\* lines 41-56
ComposeStart ==
    /\ aPc = "returned"
    /\ cPc = "idle"
    /\ cPc' = "loop"
    /\ k' = 1
    /\ tempDir' = (composer = "fast")
    /\ UNCHANGED <<audioVars, outsideCompose, composer, quality, attempted, clip_paths, frame, depth,
                   concatLog, concat_file, extracted>>

\* lines 65-68: no audio for the dialogue, it is skipped.
ComposeSkip ==
    /\ cPc = "loop"
    /\ k <= MaxDialogues
    /\ CurrentDialogue \notin Ids(results)
    /\ k' = k + 1
    /\ UNCHANGED <<audioVars, outsideCompose, composer, quality, cPc, attempted, clip_paths, tempDir, frame,
                   depth, concatLog, concat_file, extracted>>

\* lines 73-77: obtaining the visual raises (renderer failure).
ComposeVisualRaise ==
    /\ cPc = "loop"
    /\ k <= MaxDialogues
    /\ CurrentDialogue \in Ids(results)
    /\ ComposeRaise
    /\ UNCHANGED <<audioVars, outsideCompose, composer, quality, k, attempted, clip_paths, frame, depth,
                   concatLog, concat_file, extracted>>

\* lines 70-90 (FastVideoComposer), 88-166 (VideoComposer): the clip of one
\* dialogue is assembled.  FastVideoComposer drops a clip whose ffmpeg run
\* fails (returns None); in VideoComposer the exception propagates.
ComposeClip(visual, ok) ==
    /\ cPc = "loop"
    /\ k <= MaxDialogues
    /\ CurrentDialogue \in Ids(results)
    /\ attempted' = Append(attempted, CurrentDialogue)
    /\ LET d == CurrentDialogue
           duration == DurOf(results, d)
           clip == [id |-> d, dur |-> ClipDuration(visual, duration), audio |-> duration]
       IN IF ok
          THEN /\ clip_paths' = Append(clip_paths, clip)
               /\ k' = k + 1
               /\ UNCHANGED <<cPc, tempDir>>
          ELSE IF composer = "fast"
               THEN /\ k' = k + 1
                    /\ UNCHANGED <<clip_paths, cPc, tempDir>>
               ELSE /\ ComposeRaise
                    /\ UNCHANGED <<clip_paths, k>>
    /\ UNCHANGED <<audioVars, outsideCompose, composer, quality, frame, depth, concatLog, concat_file, extracted>>

\* lines 92-93: raise ValueError("No clips to compose")
ComposeNoClips ==
    /\ cPc = "loop"
    /\ k > MaxDialogues
    /\ clip_paths = <<>>
    /\ ComposeRaise
    /\ UNCHANGED <<audioVars, outsideCompose, composer, quality, k, attempted, clip_paths, frame, depth,
                   concatLog, concat_file, extracted>>

ComposeLoopDone ==
    /\ cPc = "loop"
    /\ k > MaxDialogues
    /\ clip_paths # <<>>
    /\ cPc' = IF composer = "fast" THEN "dispatch" ELSE "export"
    /\ UNCHANGED <<audioVars, outsideCompose, composer, quality, k, attempted, clip_paths, tempDir, frame,
                   depth, concatLog, concat_file, extracted>>

(***************************************************************************)
(* Concatenation (FastVideoComposer)                                       *)
(***************************************************************************)
\* _check_format_compatibility: a single clip is always compatible; else
\* the answer is what ffprobe reports for the first clips.
CheckFormatCompatibility(nclips, probe) == IF nclips <= 1 THEN TRUE ELSE probe

\* compose_video lines 110-116
ConcatDispatch ==
    /\ cPc = "dispatch"
    /\ cPc' = "concat"
    /\ frame' = IF quality = "fast" THEN "copy" ELSE "smart"
    /\ depth' = 1
    /\ UNCHANGED <<audioVars, outsideCompose, composer, quality, k, attempted, clip_paths, tempDir,
                   concatLog, concat_file, extracted>>

\* _concatenate_stream_copy lines 252-286: the list file is written, ffmpeg
\* runs with -c copy; on a nonzero exit _concatenate_smart is called.  The
\* call fails with RecursionError when the interpreter's stack is exhausted.
StreamCopyRun(ok) ==
    /\ cPc = "concat"
    /\ frame = "copy"
    /\ concat_file' = IdSeq(clip_paths)
    /\ IF ok
       THEN /\ concatLog' = Append(concatLog, "copy_ok")
            /\ cPc' = "extract"
            /\ frame' = "none"
            /\ depth' = 0
            /\ UNCHANGED tempDir
       ELSE IF depth < RecursionLimit
            THEN /\ concatLog' = Append(concatLog, "copy_failed")
                 /\ frame' = "smart"
                 /\ depth' = depth + 1
                 /\ UNCHANGED <<cPc, tempDir>>
            ELSE /\ concatLog' = concatLog \o <<"copy_failed", "recursion_error">>
                 /\ ComposeRaise
                 /\ UNCHANGED <<frame, depth>>
    /\ UNCHANGED <<audioVars, outsideCompose, composer, quality, k, attempted, clip_paths, extracted>>

\* _concatenate_smart lines 288-299: the probe decides between a call of
\* _concatenate_stream_copy and the re-encode branch.
SmartProbe(probe) ==
    /\ cPc = "concat"
    /\ frame = "smart"
    /\ IF CheckFormatCompatibility(Len(clip_paths), probe)
       THEN IF depth < RecursionLimit
            THEN /\ concatLog' = Append(concatLog, "probe_compatible")
                 /\ frame' = "copy"
                 /\ depth' = depth + 1
                 /\ UNCHANGED <<cPc, tempDir>>
            ELSE /\ concatLog' = concatLog \o <<"probe_compatible", "recursion_error">>
                 /\ ComposeRaise
                 /\ UNCHANGED <<frame, depth>>
       ELSE /\ concatLog' = Append(concatLog, "probe_incompatible")
            /\ frame' = "reencode"
            /\ UNCHANGED <<cPc, tempDir, depth>>
    /\ UNCHANGED <<audioVars, outsideCompose, composer, quality, k, attempted, clip_paths, concat_file, extracted>>

\* _concatenate_smart lines 301-377: re-encode; a nonzero exit raises
\* RuntimeError, which no caller catches.
ReencodeRun(ok) ==
    /\ cPc = "concat"
    /\ frame = "reencode"
    /\ concat_file' = IdSeq(clip_paths)
    /\ IF ok
       THEN /\ concatLog' = Append(concatLog, "reencode_ok")
            /\ cPc' = "extract"
            /\ frame' = "none"
            /\ depth' = 0
            /\ UNCHANGED tempDir
       ELSE /\ concatLog' = Append(concatLog, "reencode_failed")
            /\ ComposeRaise
            /\ UNCHANGED <<frame, depth>>
    /\ UNCHANGED <<audioVars, outsideCompose, composer, quality, k, attempted, clip_paths, extracted>>

\* VideoComposer.compose_video lines 171-234: concatenate and write_videofile.
MoviepyExport(ok) ==
    /\ cPc = "export"
    /\ IF ok
       THEN /\ concat_file' = IdSeq(clip_paths)
            /\ cPc' = "extract"
            /\ UNCHANGED tempDir
       ELSE /\ ComposeRaise
            /\ UNCHANGED concat_file
    /\ UNCHANGED <<audioVars, outsideCompose, composer, quality, k, attempted, clip_paths, frame, depth,
                   concatLog, extracted>>

\* lines 120-139: the audio-only extraction; its failure is logged and the
\* output path is returned; the temporary directory is removed.
ExtractAudio(ok) ==
    /\ cPc = "extract"
    /\ extracted' = IF ok THEN "ok" ELSE "failed"
    /\ cPc' = "returned"
    /\ tempDir' = TempDirAfter(tempDir, FALSE)
    /\ UNCHANGED <<audioVars, outsideCompose, composer, quality, k, attempted, clip_paths, frame, depth,
                   concatLog, concat_file>>

ComposeInit ==
    /\ composer \in {"fast", "moviepy"}
    /\ quality \in {"fast", "balanced"}
    /\ composer = "moviepy" => quality = "balanced"   \* VideoComposer reads no 'quality'  
    /\ cPc = "idle"
    /\ k = 0
    /\ attempted = <<>>
    /\ clip_paths = <<>>
    /\ tempDir = FALSE
    /\ frame = "none"
    /\ depth = 0
    /\ concatLog = <<>>
    /\ concat_file = <<>>
    /\ extracted = "none"

(***************************************************************************)
(* Properties of concatenation and clip assembly (SpecCompose)             *)
(***************************************************************************)
IsFailure(e) == e \in {"copy_failed", "reencode_failed"}
IsReencode(e) == e \in {"reencode_ok", "reencode_failed"}
IsCopy(e) == e \in {"copy_ok", "copy_failed"}
Failures(log) == {i \in 1..Len(log) : IsFailure(log[i])}

\* The script restricted to a set of dialogue ids, in script order.
ScriptRestrictedTo(S) ==
    LET keep(d) == d \in S IN SelectSeq(Script, keep)

\* C1: when the probe reports compatible and the stream copy then exits
\* nonzero, exactly one re-encode is attempted and its outcome is final: no
\* further probe and no further stream copy follow.
C1_OneReencodeAfterCopyFailure ==
    \A i \in 1..Len(concatLog) :
        (/\ i > 1
         /\ concatLog[i - 1] = "probe_compatible"
         /\ concatLog[i] = "copy_failed")
        => /\ Len(concatLog) <= i + 1
           /\ Len(concatLog) = i + 1 => IsReencode(concatLog[i + 1])
           /\ cPc \in {"returned", "raised"} => Len(concatLog) = i + 1

\* C2: concatenation terminates after a bounded number of attempts: a
\* second failed concatenation attempt is fatal to the run, not retried.
C2_SecondFailureFatal ==
    Cardinality(Failures(concatLog)) >= 2 => cPc = "raised"

\* C3: if the compatibility probe reports incompatible, no stream-copy
\* concatenation is run in that compose_video call, whatever the settings.
C3_IncompatibleNeverStreamCopies ==
    (\E i \in 1..Len(concatLog) : concatLog[i] = "probe_incompatible")
    => \A i \in 1..Len(concatLog) : ~IsCopy(concatLog[i])

\* C4: every assembled clip lasts exactly as long as its audio track.
C4_ClipDurationEqualsAudio ==
    \A i \in 1..Len(clip_paths) : clip_paths[i].dur = clip_paths[i].audio

\* C5: the clips handed to concatenation are in script order restricted to
\* the dialogues that have a clip, whatever order the synthesis tasks
\* finished in.
C5_ClipOrderIsScriptOrder ==
    /\ IdSeq(clip_paths) = ScriptRestrictedTo(Ids(clip_paths))
    /\ concat_file # <<>> => concat_file = ScriptRestrictedTo(Ids(clip_paths))

\* A run in which synthesis finished out of script order and at least two
\* clips were concatenated.
C5_Witness ==
    /\ Len(concat_file) >= 2
    /\ \E i, j \in 1..Len(finishOrder) :
          /\ i < j
          /\ finishOrder[i] > finishOrder[j]
          /\ finishOrder[i] \in Range(concat_file)
          /\ finishOrder[j] \in Range(concat_file)

LoopFinished == cPc \in {"dispatch", "concat", "export", "extract", "returned"}

BaseResolution == <<10, 6>>

\* _extract_and_render_mermaid_blocks line 155:
\* (int(resolution[0] * 0.8), int(resolution[1] * 0.8))
EmbedResolution(res) == <<(res[1] * 8) \div 10, (res[2] * 8) \div 10>>

\* Contents: the diagram text "D"; the markdown that render_mermaid builds
\* around a failed diagram (line 127); a markdown document with an embedded
\* diagram block; markdown without diagram blocks (e.g. a title slide).
FallbackMarkdown(code) == <<"fallback", code>>
DocWithBlock == <<"doc", "D">>
PlainMarkdown == <<"plain">>

\* re.findall(r'```mermaid\n(.*?)\n```', ...): the diagram blocks of a
\* markdown text.  The fallback text of line 127 wraps the diagram in such
\* a block.
MermaidBlocks(content) ==
    IF content[1] \in {"fallback", "doc"} THEN <<content[2]>> ELSE <<>>

\* _get_cache_key: sha256 of "<type>:<content>:<w>x<h>:4K_v2"; render_mermaid
\* passes mermaid_code + str(scale) as the content.
ImageCacheKey(content, type, res) == <<type, content, res>>
MermaidKey(code, scale, res) == ImageCacheKey(<<code, scale>>, "mermaid", res)
MarkdownKey(content, res) == ImageCacheKey(content, "markdown", res)

Requests == {[fn |-> "mermaid", content |-> "D"],
             [fn |-> "markdown", content |-> DocWithBlock],
             [fn |-> "markdown", content |-> PlainMarkdown]}

Top == rStack[Len(rStack)]
Pop == SubSeq(rStack, 1, Len(rStack) - 1)
SetPc(pc) == [rStack EXCEPT ![Len(rStack)].pc = pc]
Value(key) == [kind |-> "value", key |-> key]
Exc == [kind |-> "exc", key |-> <<>>]
NoRet == [kind |-> "none", key |-> <<>>]

MermaidFrame(code, res, scale) ==
    [fn |-> "mermaid", content |-> code, res |-> res, scale |-> scale, pc |-> "check"]
MarkdownFrame(content, res) ==
    [fn |-> "markdown", content |-> content, res |-> res, scale |-> 10, pc |-> "check"]

\* A call is possible while the interpreter's stack has room.
StackHasRoom == Len(rStack) < RecursionLimit

\* A caller (the asset phase, the composer) calls render_mermaid or
\* render_markdown / render_title_slide.
RenderCall(req) ==
    /\ rStack = <<>>
    /\ rRet.kind = "none"
    /\ rCalls < MaxRenderCalls
    /\ rCalls' = rCalls + 1
    /\ rReq' = req
    /\ rStack' = <<IF req.fn = "mermaid"
                   THEN MermaidFrame(req.content, BaseResolution, 10)
                   ELSE MarkdownFrame(req.content, BaseResolution)>>
    /\ rResult' = "none"
    /\ engineCalls' = 0
    /\ engineFailed' = FALSE
    /\ browserFailed' = FALSE
    /\ recursionError' = FALSE
    /\ UNCHANGED <<outsideRender, rRet, imageCache>>

\* render_mermaid lines 46-50, render_markdown lines 194-198: cache lookup.
CacheCheck ==
    /\ rStack # <<>>
    /\ Top.pc = "check"
    /\ LET key == IF Top.fn = "mermaid"
                  THEN MermaidKey(Top.content, Top.scale, Top.res)
                  ELSE MarkdownKey(Top.content, Top.res)
       IN IF key \in imageCache
          THEN /\ rRet' = Value(key)
               /\ rStack' = Pop
          ELSE /\ rStack' = SetPc(IF Top.fn = "mermaid" THEN "engine"
                                  ELSE IF MermaidBlocks(Top.content) # <<>> THEN "blocks"
                                  ELSE "browser")
               /\ UNCHANGED rRet
    /\ UNCHANGED <<outsideRender, rResult, rReq, rCalls, imageCache, engineCalls,
                   engineFailed, browserFailed, recursionError>>

\* render_mermaid lines 104-135: the diagram engine runs.  Exit 0: the image
\* is post-processed and returned.  Nonzero exit: render_markdown is called
\* with the diagram wrapped in a mermaid block (lines 122-130).
EngineRun(ok) ==
    /\ rStack # <<>>
    /\ Top.fn = "mermaid"
    /\ Top.pc = "engine"
    /\ engineCalls' = engineCalls + 1
    /\ IF ok
       THEN /\ imageCache' = imageCache \cup {MermaidKey(Top.content, Top.scale, Top.res)}
            /\ rRet' = Value(MermaidKey(Top.content, Top.scale, Top.res))
            /\ rStack' = Pop
            /\ UNCHANGED <<engineFailed, recursionError>>
       ELSE /\ engineFailed' = TRUE
            /\ UNCHANGED imageCache
            /\ IF StackHasRoom
               THEN /\ rStack' = Append(SetPc("await_fallback"),
                                        MarkdownFrame(FallbackMarkdown(Top.content), Top.res))
                    /\ UNCHANGED <<rRet, recursionError>>
               ELSE /\ recursionError' = TRUE
                    /\ rRet' = Exc
                    /\ rStack' = Pop
    /\ UNCHANGED <<outsideRender, rResult, rReq, rCalls, browserFailed>>

\* render_mermaid line 126: "return await self.render_markdown(...)": the
\* fallback's path is returned, its exception propagates.
FallbackReturned ==
    /\ rStack # <<>>
    /\ Top.pc = "await_fallback"
    /\ rRet.kind # "none"
    /\ rStack' = Pop
    /\ UNCHANGED <<outsideRender, rRet, rResult, rReq, rCalls, imageCache, engineCalls,
                   engineFailed, browserFailed, recursionError>>

\* _extract_and_render_mermaid_blocks lines 150-156: the embedded diagram is
\* rendered by render_mermaid at 0.8 of the resolution, inside try/except.
RenderBlock ==
    /\ rStack # <<>>
    /\ Top.fn = "markdown"
    /\ Top.pc = "blocks"
    /\ IF StackHasRoom
       THEN /\ rStack' = Append(SetPc("await_block"),
                                MermaidFrame(MermaidBlocks(Top.content)[1],
                                             EmbedResolution(Top.res), 8))
            /\ UNCHANGED recursionError
       ELSE \* RecursionError is an Exception: caught at line 163
            /\ recursionError' = TRUE
            /\ rStack' = SetPc("browser")
    /\ UNCHANGED <<outsideRender, rRet, rResult, rReq, rCalls, imageCache, engineCalls,
                   engineFailed, browserFailed>>

\* lines 158-166: the image is embedded; an exception of the embedded render
\* is caught and the block is kept as text.
BlockReturned ==
    /\ rStack # <<>>
    /\ Top.pc = "await_block"
    /\ rRet.kind # "none"
    /\ rRet' = NoRet
    /\ rStack' = SetPc("browser")
    /\ UNCHANGED <<outsideRender, rResult, rReq, rCalls, imageCache, engineCalls,
                   engineFailed, browserFailed, recursionError>>

\* render_markdown lines 563-585: the browser renders the page to the cache
\* path; an exception of the browser propagates.
BrowserRender(ok) ==
    /\ rStack # <<>>
    /\ Top.fn = "markdown"
    /\ Top.pc = "browser"
    /\ IF ok
       THEN /\ imageCache' = imageCache \cup {MarkdownKey(Top.content, Top.res)}
            /\ rRet' = Value(MarkdownKey(Top.content, Top.res))
            /\ UNCHANGED browserFailed
       ELSE /\ browserFailed' = TRUE
            /\ rRet' = Exc
            /\ UNCHANGED imageCache
    /\ rStack' = Pop
    /\ UNCHANGED <<outsideRender, rResult, rReq, rCalls, engineCalls, engineFailed,
                   recursionError>>

\* The top-level call hands its result to its caller.
RenderDone ==
    /\ rStack = <<>>
    /\ rRet.kind # "none"
    /\ rResult' = IF rRet.kind = "value" THEN "returned" ELSE "raised"
    /\ rRet' = NoRet
    /\ UNCHANGED <<outsideRender, rStack, rReq, rCalls, imageCache, engineCalls,
                   engineFailed, browserFailed, recursionError>>

(***************************************************************************)
(* VideoGenerator                                                          *)
(***************************************************************************)
Phases == <<"asset_rendering", "audio_generation", "video_composition">>
PhaseSet == Range(Phases)

\* _extract_unique_visualizations: the ids of the visualizations to render.
Viz == 1..MaxViz

Event(type, phase, item, pct) == [type |-> type, phase |-> phase, item |-> item, pct |-> pct]

\* generate_video line 131: getattr(self, '_current_phase', 'unknown')
ErrorPhaseDefaultsToFirst(cur) == IF cur = "unset" THEN "asset_rendering" ELSE cur
ErrorPhase(cur) == IF cur = "unset" THEN "unknown" ELSE cur

\* generate_video lines 124-141: after the handler has published task_failed
\* the exception is re-raised and only the finally clause runs.
ContinueAfterFailure(point) ==
    IF point = "pre" THEN "asset_begin"
    ELSE IF point = "asset_rendering" THEN "audio_begin"
    ELSE IF point = "audio_generation" THEN "compose_begin"
    ELSE "finally"
AfterFailure(point) == "finally"

\* _render_assets_phase line 216: the as_completed loop ends when every task
\* has been awaited.
LoopExhaustedAtFirst(consumed, total) == consumed >= 1
LoopExhausted(consumed, total) == consumed = total

\* lines 226 and 261: "percentage": (current / total) * 100, in whole percents.
PercentageRemaining(current, total) == ((total - current) * 100) \div total
Percentage(current, total) == (current * 100) \div total

\* audio_progress line 266: if completed > 0
ReportsAudioGeneratedAfterFirst(completed) == completed > 1
ReportsAudioGenerated(completed) == completed > 0

\* An exception escapes the try block at `point`: the handler publishes
\* task_failed (lines 124-136) and re-raises (line 138).
Fail(point) ==
    /\ events' = Append(events, Event("task_failed", ErrorPhase(current_phase), 0, 0))
    /\ failedAt' = point
    /\ oPc' = AfterFailure(point)

\* lines 44-66: the document is loaded, the audio processor and the quality
\* preset are set up, task_started is published.
OrchStart(ok) ==
    /\ oPc = "load"
    /\ IF ok
       THEN /\ events' = Append(events, Event("task_started", "none", 0, 0))
            /\ oPc' = "asset_begin"
            /\ UNCHANGED failedAt
       ELSE Fail("pre")
    /\ UNCHANGED <<outsideOrch, podcast, current_phase, vizSt, doneQueue,
                   renderPermits, visual_assets, rendered, audioIdx, tracks, composeIdx,
                   outcome, cleanups>>

\* _render_assets_phase lines 150-216: the phase is entered and one render
\* task per visualization is created.
AssetPhaseStart ==
    /\ oPc = "asset_begin"
    /\ current_phase' = "asset_rendering"
    /\ events' = Append(events, Event("phase_started", "asset_rendering", 0, 0))
    /\ vizSt' = [v \in Viz |-> "queued"]
    /\ oPc' = "asset_wait"
    /\ UNCHANGED <<outsideOrch, podcast, doneQueue, renderPermits, visual_assets,
                   rendered, audioIdx, tracks, composeIdx, outcome, cleanups, failedAt>>

\* render_with_progress line 170: async with semaphore
RenderAcquire(v) ==
    /\ vizSt[v] = "queued"
    /\ renderPermits > 0
    /\ renderPermits' = renderPermits - 1
    /\ vizSt' = [vizSt EXCEPT ![v] = "rendering"]
    /\ UNCHANGED <<outsideOrch, podcast, oPc, current_phase, events, doneQueue,
                   visual_assets, rendered, audioIdx, tracks, composeIdx, outcome, cleanups,
                   failedAt>>

\* lines 173-198: the render returns a path and asset_rendered is published.
RenderOk(v) ==
    /\ vizSt[v] = "rendering"
    /\ events' = Append(events, Event("asset_rendered", "asset_rendering", v, 0))
    /\ vizSt' = [vizSt EXCEPT ![v] = "done"]
    /\ renderPermits' = renderPermits + 1
    /\ doneQueue' = Append(doneQueue, v)
    /\ UNCHANGED <<outsideOrch, podcast, oPc, current_phase, visual_assets,
                   rendered, audioIdx, tracks, composeIdx, outcome, cleanups, failedAt>>

\* lines 200-203: the render raises; the handler starts render_title_slide.
RenderRaise(v) ==
    /\ vizSt[v] = "rendering"
    /\ vizSt' = [vizSt EXCEPT ![v] = "fallback"]
    /\ UNCHANGED <<outsideOrch, podcast, oPc, current_phase, events, doneQueue,
                   renderPermits, visual_assets, rendered, audioIdx, tracks, composeIdx,
                   outcome, cleanups, failedAt>>

\* lines 203-208: render_title_slide (render_markdown) returns the error
\* slide, or raises; nothing catches its exception and the task raises.
FallbackRender(v, ok) ==
    /\ vizSt[v] = "fallback"
    /\ vizSt' = [vizSt EXCEPT ![v] = IF ok THEN "slide" ELSE "raised"]
    /\ renderPermits' = renderPermits + 1
    /\ doneQueue' = Append(doneQueue, v)
    /\ UNCHANGED <<outsideOrch, podcast, oPc, current_phase, events,
                   visual_assets, rendered, audioIdx, tracks, composeIdx, outcome, cleanups,
                   failedAt>>

\* lines 216-217: the exception of the awaited task leaves the as_completed
\* loop and the phase; no statement cancels the other tasks, which stay
\* scheduled on the event loop.
Unfinished == {"queued", "rendering", "fallback"}
PeersCancelled(st) == [v \in DOMAIN st |-> IF st[v] \in Unfinished THEN "cancelled" ELSE st[v]]
PeersLeftRunning(st) == st

\* lines 216-228: the next finished task is awaited; its result is recorded
\* and phase_progress published, or its exception escapes the phase.
AssetConsume ==
    /\ oPc = "asset_wait"
    /\ doneQueue # <<>>
    /\ doneQueue' = Tail(doneQueue)
    /\ LET v == Head(doneQueue)
       IN IF vizSt[v] = "raised"
          THEN /\ Fail("asset_rendering")
               /\ vizSt' = PeersLeftRunning(vizSt)
               /\ UNCHANGED <<visual_assets, rendered>>
          ELSE /\ visual_assets' = Append(visual_assets,
                                          [id |-> v,
                                           asset |-> IF vizSt[v] = "done" THEN "image"
                                                     ELSE "error_slide"])
               /\ rendered' = rendered + 1
               /\ events' = Append(events, Event("phase_progress", "asset_rendering", v,
                                                 Percentage(rendered + 1, MaxViz)))
               /\ UNCHANGED <<oPc, failedAt, vizSt>>
    /\ UNCHANGED <<outsideOrch, podcast, current_phase, renderPermits,
                   audioIdx, tracks, composeIdx, outcome, cleanups>>

\* lines 230-235
AssetPhaseDone ==
    /\ oPc = "asset_wait"
    /\ LoopExhausted(rendered, MaxViz)
    /\ events' = Append(events, Event("phase_completed", "asset_rendering", 0, 0))
    /\ oPc' = "audio_begin"
    /\ UNCHANGED <<outsideOrch, podcast, current_phase, vizSt, doneQueue,
                   renderPermits, visual_assets, rendered, audioIdx, tracks, composeIdx,
                   outcome, cleanups, failedAt>>

\* _generate_audio_phase lines 244-253
AudioPhaseStart ==
    /\ oPc = "audio_begin"
    /\ current_phase' = "audio_generation"
    /\ events' = Append(events, Event("phase_started", "audio_generation", 0, 0))
    /\ audioIdx' = 1
    /\ oPc' = "audio_run"
    /\ UNCHANGED <<outsideOrch, podcast, vizSt, doneQueue, renderPermits,
                   visual_assets, rendered, tracks, composeIdx, outcome, cleanups, failedAt>>

\* generate_audio_tracks lines 123-134 with the callback audio_progress
\* (lines 256-279): a line whose synthesis succeeded is stored and reported,
\* a failed line is skipped.
AudioLine(ok) ==
    /\ oPc = "audio_run"
    /\ audioIdx <= MaxDialogues
    /\ audioIdx' = audioIdx + 1
    /\ IF ok
       THEN /\ tracks' = tracks \cup {Script[audioIdx]}
            /\ events' = events \o
                  <<Event("phase_progress", "audio_generation", Script[audioIdx],
                          Percentage(Cardinality(tracks) + 1, MaxDialogues))>> \o
                  (IF ReportsAudioGenerated(Cardinality(tracks) + 1)
                   THEN <<Event("audio_generated", "audio_generation", Script[audioIdx], 0)>>
                   ELSE <<>>)
       ELSE UNCHANGED <<tracks, events>>
    /\ UNCHANGED <<outsideOrch, podcast, oPc, current_phase, vizSt, doneQueue,
                   renderPermits, visual_assets, rendered, composeIdx, outcome, cleanups,
                   failedAt>>

\* An exception escapes generate_audio_tracks or the callback.
AudioPhaseRaise ==
    /\ oPc = "audio_run"
    /\ Fail("audio_generation")
    /\ UNCHANGED <<outsideOrch, podcast, current_phase, vizSt, doneQueue,
                   renderPermits, visual_assets, rendered, audioIdx, tracks, composeIdx,
                   outcome, cleanups>>

\* lines 289-294
AudioPhaseDone ==
    /\ oPc = "audio_run"
    /\ audioIdx > MaxDialogues
    /\ events' = Append(events, Event("phase_completed", "audio_generation", 0, 0))
    /\ oPc' = "compose_begin"
    /\ UNCHANGED <<outsideOrch, podcast, current_phase, vizSt, doneQueue,
                   renderPermits, visual_assets, rendered, audioIdx, tracks, composeIdx,
                   outcome, cleanups, failedAt>>

\* _compose_video_phase lines 306-315
ComposePhaseStart ==
    /\ oPc = "compose_begin"
    /\ current_phase' = "video_composition"
    /\ events' = Append(events, Event("phase_started", "video_composition", 0, 0))
    /\ composeIdx' = 1
    /\ oPc' = "compose_run"
    /\ UNCHANGED <<outsideOrch, podcast, vizSt, doneQueue, renderPermits,
                   visual_assets, rendered, audioIdx, tracks, outcome, cleanups, failedAt>>

\* compose_video's dialogue loop with the callback composition_progress
\* (lines 318-327): one progress event per dialogue that has a track.
ComposeStep ==
    /\ oPc = "compose_run"
    /\ composeIdx <= MaxDialogues
    /\ composeIdx' = composeIdx + 1
    /\ IF Script[composeIdx] \in tracks
       THEN events' = Append(events, Event("video_composition_progress", "video_composition",
                                           Script[composeIdx], 0))
       ELSE UNCHANGED events
    /\ UNCHANGED <<outsideOrch, podcast, oPc, current_phase, vizSt, doneQueue,
                   renderPermits, visual_assets, rendered, audioIdx, tracks, outcome, cleanups,
                   failedAt>>

\* compose_video raises (a visual cannot be obtained, no clips to compose,
\* the concatenation fails).
ComposePhaseRaise ==
    /\ oPc = "compose_run"
    /\ podcast = "none"
    /\ Fail("video_composition")
    /\ UNCHANGED <<outsideOrch, podcast, current_phase, vizSt, doneQueue,
                   renderPermits, visual_assets, rendered, audioIdx, tracks, composeIdx,
                   outcome, cleanups>>

\* compose_video, after the video artifact has been written
\* (fast_video_composer.py lines 120-131, video_composer.py lines 238-249):
\* the audio-only extraction runs inside try/except Exception, which logs the
\* failure.
\* compose_video lines 92-93: if not clip_paths: raise ValueError("No clips
\* to compose"); without a track no dialogue gets a clip.
NeverNoClips(audio_tracks) == FALSE
NoClipsToCompose(audio_tracks) == audio_tracks = {}

ExtractionPropagates(ok) == ~ok
ExtractionRaises(ok) == FALSE

ComposeExtract(ok) ==
    /\ oPc = "compose_run"
    /\ composeIdx > MaxDialogues
    /\ ~NoClipsToCompose(tracks)
    /\ podcast = "none"
    /\ IF ExtractionRaises(ok)
       THEN /\ Fail("video_composition")
            /\ podcast' = "failed"
       ELSE /\ podcast' = IF ok THEN "ok" ELSE "failed"
            /\ UNCHANGED <<oPc, events, failedAt>>
    /\ UNCHANGED <<outsideOrch, current_phase, vizSt, doneQueue,
                   renderPermits, visual_assets, rendered, audioIdx, tracks, composeIdx,
                   outcome, cleanups>>

\* lines 341-355: compose_video returned the output path.
ComposePhaseDone ==
    /\ oPc = "compose_run"
    /\ composeIdx > MaxDialogues
    /\ ~NoClipsToCompose(tracks)
    /\ podcast # "none"
    /\ events' = Append(events, Event("phase_completed", "video_composition", 0, 0))
    /\ oPc' = "metrics"
    /\ UNCHANGED <<outsideOrch, podcast, current_phase, vizSt, doneQueue,
                   renderPermits, visual_assets, rendered, audioIdx, tracks, composeIdx,
                   outcome, cleanups, failedAt>>

\* generate_video lines 86-122: the final metrics (video_path.stat() can
\* raise), then task_completed.
Metrics(ok) ==
    /\ oPc = "metrics"
    /\ IF ok
       THEN /\ events' = Append(events, Event("task_completed", "none", 0, 0))
            /\ oPc' = "finally"
            /\ UNCHANGED failedAt
       ELSE Fail("post")
    /\ UNCHANGED <<outsideOrch, podcast, current_phase, vizSt, doneQueue,
                   renderPermits, visual_assets, rendered, audioIdx, tracks, composeIdx,
                   outcome, cleanups>>

\* lines 139-141: asyncio.create_task(cleanup_task(task_id)) stands in the
\* finally clause, so it runs after a return and after a raise.
ScheduledOnReturnOnly(failed) == IF failed THEN 0 ELSE 1
ScheduledInFinally(failed) == 1

\* lines 139-141: the cleanup is scheduled and generate_video returns the
\* result or re-raises.
OrchFinally ==
    /\ oPc = "finally"
    /\ cleanups' = cleanups + ScheduledInFinally(failedAt # "none")
    /\ outcome' = IF failedAt # "none" THEN "raised" ELSE "returned"
    /\ oPc' = "done"
    /\ UNCHANGED <<outsideOrch, podcast, current_phase, events, vizSt, doneQueue,
                   renderPermits, visual_assets, rendered, audioIdx, tracks, composeIdx,
                   failedAt>>

StreamEndsPublished == Len(SelectSeq(events, LAMBDA e : e.type = "stream_end"))

\* progress_observer.cleanup_task lines 150-155: each scheduled cleanup
\* sleeps and then publishes stream_end.
CleanupStreamEnd ==
    /\ StreamEndsPublished < cleanups
    /\ events' = Append(events, Event("stream_end", "none", 0, 0))
    /\ UNCHANGED <<outsideOrch, podcast, oPc, current_phase, vizSt, doneQueue,
                   renderPermits, visual_assets, rendered, audioIdx, tracks, composeIdx,
                   outcome, cleanups, failedAt>>

OrchIdle ==
    /\ oPc = "load"
    /\ current_phase = "unset"
    /\ events = <<>>
    /\ vizSt = [v \in Viz |-> "none"]
    /\ doneQueue = <<>>
    /\ renderPermits = RenderSemaphoreSize
    /\ visual_assets = <<>>
    /\ rendered = 0
    /\ audioIdx = 0
    /\ tracks = {}
    /\ composeIdx = 0
    /\ outcome = "running"
    /\ cleanups = 0
    /\ failedAt = "none"
    /\ podcast = "none"

(***************************************************************************)
(* The synthesis fan-out at a script longer than one batch                 *)
(***************************************************************************)
Lines == 1..MaxLines

\* dialogues[i:i + batch_size], line 109
LineBatch(i) == {j \in Lines : j >= i /\ j < i + BatchSize}

\* Requests to the voice service that are in flight: tasks between
\* session.post (line 178) and the end of the semaphore block.
InFlight == {d \in Lines : sSt[d] = "inflight"}

\* line 158: "async with self.api_semaphore" takes one permit.
PermitsAfterRequestOutsideGate(permits) == permits
PermitsAfterAcquire(permits) == permits - 1

\* lines 108-118: the tasks of the next batch are created.
SynthStartBatch ==
    /\ sPc = "start"
    /\ sBatch <= MaxLines
    /\ sSt' = [d \in Lines |-> IF d \in LineBatch(sBatch) THEN "pending" ELSE sSt[d]]
    /\ sPc' = "gather"
    /\ UNCHANGED <<sBatch, sPermits, sDone, sReported, outsideSynth>>

\* _generate_single_audio lines 146-156: a cache hit returns without a
\* request; a miss goes on to the semaphore.
SynthCacheLookup(d, hit) ==
    /\ sSt[d] = "pending"
    /\ sSt' = [sSt EXCEPT ![d] = IF hit THEN "ok" ELSE "waiting"]
    /\ sDone' = IF hit THEN Append(sDone, d) ELSE sDone
    /\ UNCHANGED <<sPc, sBatch, sPermits, sReported, outsideSynth>>

\* line 158: a permit is taken and the request is sent.
SynthAcquire(d) ==
    /\ sSt[d] = "waiting"
    /\ sPermits > 0
    /\ sPermits' = PermitsAfterAcquire(sPermits)
    /\ sSt' = [sSt EXCEPT ![d] = "inflight"]
    /\ UNCHANGED <<sPc, sBatch, sDone, sReported, outsideSynth>>

\* lines 178-196: the request ends (status 200, or an error that the task
\* re-raises) and the semaphore block is left.
SynthFinish(d, ok) ==
    /\ sSt[d] = "inflight"
    /\ sSt' = [sSt EXCEPT ![d] = IF ok THEN "ok" ELSE "failed"]
    /\ sPermits' = sPermits + 1
    /\ sDone' = Append(sDone, d)
    /\ UNCHANGED <<sPc, sBatch, sReported, outsideSynth>>

\* line 132: completed += 1 before the callback is called with it.
PositionInScript(reported, j) == j
CompletedAfter(reported, j) == Len(reported) + 1

\* lines 123-134: zip(batch, batch_results) is walked in batch order; a
\* failed line is skipped, a successful one is counted and reported.
RECURSIVE ReportFrom(_, _, _)
ReportFrom(reported, j, st) ==
    IF j > MaxLines \/ j >= sBatch + BatchSize THEN reported
    ELSE IF st[j] = "ok"
         THEN ReportFrom(Append(reported, [item |-> j, current |-> CompletedAfter(reported, j)]),
                         j + 1, st)
         ELSE ReportFrom(reported, j + 1, st)

\* lines 121-134: the gather returns when every task of the batch is done.
SynthCollect ==
    /\ sPc = "gather"
    /\ \A d \in LineBatch(sBatch) : sSt[d] \in {"ok", "failed"}
    /\ sBatch' = sBatch + BatchSize
    /\ sPc' = "start"
    /\ sReported' = ReportFrom(sReported, sBatch, sSt)
    /\ UNCHANGED <<sSt, sPermits, sDone, outsideSynth>>

\* lines 136-137
SynthReturn ==
    /\ sPc = "start"
    /\ sBatch > MaxLines
    /\ sPc' = "returned"
    /\ UNCHANGED <<sBatch, sSt, sPermits, sDone, sReported, outsideSynth>>

SynthIdle ==
    /\ sPc = "start"
    /\ sBatch = 1
    /\ sSt = [d \in Lines |-> "none"]
    /\ sPermits = ApiSemaphoreSize
    /\ sDone = <<>>
    /\ sReported = <<>>

(***************************************************************************)
(* The render fan-out at more tasks than the semaphore has permits         *)
(***************************************************************************)
\* _render_assets_phase lines 211-214: one task per visualization.
PoolTasks == 1..MaxTasks

\* Renders that are executing: tasks inside "async with semaphore", in the
\* render proper or in the fallback render of the except clause.
Executing == {v \in PoolTasks : pSt[v] \in {"rendering", "fallback"}}

\* render_with_progress line 170: a task enters when a permit is free.
SlotAlwaysFree(permits) == TRUE
SlotFree(permits) == permits > 0

PoolAcquire(v) ==
    /\ pSt[v] = "queued"
    /\ SlotFree(pPermits)
    /\ pPermits' = pPermits - 1
    /\ pSt' = [pSt EXCEPT ![v] = "rendering"]
    /\ UNCHANGED outsidePool

\* lines 173-198: the render returns and the task ends, or (lines 200-201)
\* it raises and the except clause starts the fallback render.
PoolRenderEnds(v, ok) ==
    /\ pSt[v] = "rendering"
    /\ pSt' = [pSt EXCEPT ![v] = IF ok THEN "finished" ELSE "fallback"]
    /\ pPermits' = IF ok THEN pPermits + 1 ELSE pPermits
    /\ UNCHANGED outsidePool

\* lines 203-208: the fallback render returns or raises; either way the
\* task ends and leaves the semaphore block.
PoolFallbackEnds(v) ==
    /\ pSt[v] = "fallback"
    /\ pSt' = [pSt EXCEPT ![v] = "finished"]
    /\ pPermits' = pPermits + 1
    /\ UNCHANGED outsidePool

PoolIdle ==
    /\ pSt = [v \in PoolTasks |-> "queued"]
    /\ pPermits = RenderSemaphoreSize

(***************************************************************************)
(* _extract_unique_visualizations                                          *)
(***************************************************************************)
\* A visualization: {type, content}.
VizDescriptions == [type : {"mermaid", "markdown"}, content : {"A", "B"}]
NoViz == [type |-> "none", content |-> "none"]

\* A carrier of a visualization: the cluster (position 1) or a dialogue,
\* with its optional 'visualization' and optional 'visualization_id'.
Carriers == {[viz |-> NoViz, vid |-> "none"]} \cup
            [viz : VizDescriptions, vid : {"none", "shared"}]

\* lines 364-365 and 371-372: the key under which a carrier's visualization
\* is stored: its visualization_id, else "cluster_<id>" / "dialogue_<id>".
VizId(doc, n) ==
    IF doc[n].vid # "none" THEN <<"given", doc[n].vid>>
    ELSE IF n = 1 THEN <<"cluster", 1>> ELSE <<"dialogue", n - 1>>

\* visualizations[viz_id] = ...: a new key is appended, an existing key
\* keeps its position and takes the new value.
DictSet(dict, key, value) ==
    IF \E i \in DOMAIN dict : dict[i].id = key
    THEN [i \in DOMAIN dict |-> IF dict[i].id = key THEN [id |-> key, viz |-> value]
                                ELSE dict[i]]
    ELSE Append(dict, [id |-> key, viz |-> value])

\* lines 359-375
RECURSIVE ExtractFrom(_, _, _)
ExtractFrom(doc, n, dict) ==
    IF n > Len(doc) THEN dict
    ELSE IF doc[n].viz = NoViz THEN ExtractFrom(doc, n + 1, dict)
    ELSE ExtractFrom(doc, n + 1, DictSet(dict, VizId(doc, n), doc[n].viz))

ExtractUniqueVisualizations(doc) == ExtractFrom(doc, 1, <<>>)

\* _render_assets_phase line 153
ExtractVisualizations ==
    /\ xPc = "loaded"
    /\ xViz' = ExtractUniqueVisualizations(xDoc)
    /\ xPc' = "extracted"
    /\ UNCHANGED <<xDoc, xTasks, outsideExtract>>

\* lines 211-214: one render task per item of the dict.
CreateRenderTasks ==
    /\ xPc = "extracted"
    /\ xTasks' = xViz
    /\ xPc' = "tasks"
    /\ UNCHANGED <<xDoc, xViz, outsideExtract>>

ExtractIdle ==
    /\ xDoc = [n \in 1..MaxCarriers |-> [viz |-> NoViz, vid |-> "none"]]
    /\ xPc = "loaded"
    /\ xViz = <<>>
    /\ xTasks = <<>>

ExtractInit ==
    /\ xDoc \in [1..MaxCarriers -> Carriers]
    /\ xPc = "loaded"
    /\ xViz = <<>>
    /\ xTasks = <<>>

(***************************************************************************)
(* VideoProgressObserver                                                   *)
(***************************************************************************)
\* Callers of subscribe; the queue that subscribe creates for subscriber s
\* is queue s.
Subscribers == 1..MaxSubscribers

\* notify calls: 1..MaxPublishers are made by the producers of the task, 0
\* is the call made by cleanup_task (line 155).
Publishers == 1..MaxPublishers
NotifyCalls == 0..MaxPublishers

PublishedTypes == <<"task_started", "phase_progress", "task_completed", "task_failed">>
EventOf(p) == IF p = 0 THEN "stream_end" ELSE PublishedTypes[((p - 1) % 4) + 1]

\* lines 45-49 and 121-125
PendingState == [status |-> "pending", progress |-> 0]

\* _update_task_state lines 127-148
UpdateTaskState(state, type) ==
    IF type = "task_started" THEN [state EXCEPT !.status = "running"]
    ELSE IF type = "phase_progress" THEN [state EXCEPT !.progress = 50]
    ELSE IF type = "task_completed" THEN [status |-> "completed", progress |-> 100]
    ELSE IF type = "task_failed" THEN [state EXCEPT !.status = "failed"]
    ELSE state

\* subscribe lines 42-58: the lock stays held while connection_established
\* is put into the new queue.
ReleasedDuringGreeting(s) == 0
HeldDuringGreeting(s) == s

\* _notify_single lines 112-113 under gather(return_exceptions=True): a
\* timeout ends the delivery to that queue only.
NoneAfterTimeout(pending, q) == {}
RemainingAfterTimeout(pending, q) == pending \ {q}

HasRoom(q) == Len(queue[q]) < QueueMaxSize

\* The record of the first message of a queue after one more put.
FirstPlaced(first, msg) == IF first = "none" THEN msg ELSE first

\* subscribe lines 42-53: the lock is taken, the registry entry and the
\* task state are created if the task has no entry, the queue is appended.
\* The connections are interchangeable, so they are numbered in the order in
\* which they call subscribe.
SubscribeEnter(s) ==
    /\ subPc[s] = "idle"
    /\ \A r \in Subscribers : r < s => subPc[r] # "idle"
    /\ lock = 0
    /\ lock' = HeldDuringGreeting(s)
    /\ IF hasObservers
       THEN /\ observers' = Append(observers, s)
            /\ UNCHANGED <<hasObservers, hasState, task_state>>
       ELSE /\ hasObservers' = TRUE
            /\ observers' = <<s>>
            /\ hasState' = TRUE
            /\ task_state' = PendingState
    /\ subPc' = [subPc EXCEPT ![s] = "greeting"]
    /\ UNCHANGED <<queue, placed, pubPc, pubSnap, pubPending, pubDelivered, pubAbandoned,
                   cleanupPc, discarded, outsideObs>>

\* subscribe lines 42 and 64: leaving the 'async with' block on return
\* releases the lock.
LockKeptAfterReturn(holder, s) == holder
LockReleasedOnReturn(holder, s) == IF holder = s THEN 0 ELSE holder

\* lines 58-64: connection_established is put into the queue, the lock is
\* released and the queue returned.
SubscribeGreet(s) ==
    /\ subPc[s] = "greeting"
    /\ IF HasRoom(s)
       THEN /\ queue' = [queue EXCEPT ![s] = Append(@, "connection_established")]
            /\ placed' = [placed EXCEPT ![s] = FirstPlaced(@, "connection_established")]
       ELSE UNCHANGED <<queue, placed>>
    /\ lock' = LockReleasedOnReturn(lock, s)
    /\ subPc' = [subPc EXCEPT ![s] = "subscribed"]
    /\ UNCHANGED <<hasObservers, observers, hasState, task_state, pubPc, pubSnap, pubPending,
                   pubDelivered, pubAbandoned, cleanupPc, discarded, outsideObs>>

\* The consumer of the queue (main.py line 992) takes the oldest message.
Consume(s) ==
    /\ subPc[s] = "subscribed"
    /\ queue[s] # <<>>
    /\ queue' = [queue EXCEPT ![s] = Tail(@)]
    /\ UNCHANGED <<lock, hasObservers, observers, hasState, task_state, placed, subPc, pubPc,
                   pubSnap, pubPending, pubDelivered, pubAbandoned, cleanupPc, discarded,
                   outsideObs>>

\* unsubscribe line 70: list.remove(queue) takes the queue out of the list.
RemoveAllQueues(list, q) == <<>>
RemoveQueue(list, q) == SelectSeq(list, LAMBDA r : r # q)

\* unsubscribe lines 68-75
Unsubscribe(s) ==
    /\ subPc[s] = "subscribed"
    /\ lock = 0
    /\ IF hasObservers /\ s \in Range(observers)
       THEN /\ observers' = RemoveQueue(observers, s)
            /\ hasObservers' = (RemoveQueue(observers, s) # <<>>)
       ELSE UNCHANGED <<hasObservers, observers>>
    /\ subPc' = [subPc EXCEPT ![s] = "closed"]
    /\ UNCHANGED <<lock, hasState, task_state, queue, placed, pubPc, pubSnap, pubPending,
                   pubDelivered, pubAbandoned, cleanupPc, discarded, outsideObs>>

\* notify lines 80-88: the task state is updated (created if missing) and the
\* snapshot of the queues is taken; without an entry or without queues the
\* call returns.
NotifyBegin(p) ==
    /\ pubPc[p] = "idle"
    /\ lock = 0
    /\ hasState' = TRUE
    /\ task_state' = UpdateTaskState(IF hasState THEN task_state ELSE PendingState, EventOf(p))
    /\ pubSnap' = [pubSnap EXCEPT ![p] = Range(observers)]
    /\ pubPending' = [pubPending EXCEPT ![p] = Range(observers)]
    /\ pubPc' = [pubPc EXCEPT ![p] = IF hasObservers /\ observers # <<>>
                                     THEN "delivering" ELSE "done"]

Publish(p) ==
    /\ p \in Publishers
    /\ NotifyBegin(p)
    /\ UNCHANGED <<lock, hasObservers, observers, queue, placed, subPc, pubDelivered,
                   pubAbandoned, cleanupPc, discarded, outsideObs>>

\* _notify_single lines 100-111: the message is put into a queue with room.
DeliverPut(p, q) ==
    /\ pubPc[p] = "delivering"
    /\ q \in pubPending[p]
    /\ HasRoom(q)
    /\ queue' = [queue EXCEPT ![q] = Append(@, EventOf(p))]
    /\ placed' = [placed EXCEPT ![q] = FirstPlaced(@, EventOf(p))]
    /\ pubPending' = [pubPending EXCEPT ![p] = @ \ {q}]
    /\ pubDelivered' = [pubDelivered EXCEPT ![p] = @ \cup {q}]
    /\ UNCHANGED <<lock, hasObservers, observers, hasState, task_state, subPc, pubPc, pubSnap,
                   pubAbandoned, cleanupPc, discarded, outsideObs>>

\* lines 108-113: the queue stayed full for the timeout of wait_for.
DeliverTimeout(p, q) ==
    /\ pubPc[p] = "delivering"
    /\ q \in pubPending[p]
    /\ ~HasRoom(q)
    /\ pubPending' = [pubPending EXCEPT ![p] = RemainingAfterTimeout(@, q)]
    /\ pubAbandoned' = [pubAbandoned EXCEPT ![p] = @ \cup {q}]
    /\ UNCHANGED <<lock, hasObservers, observers, hasState, task_state, queue, placed, subPc,
                   pubPc, pubSnap, pubDelivered, cleanupPc, discarded, outsideObs>>

\* lines 91-96: the gather is over and notify returns; its locals are gone.
NotifyReturn(p) ==
    /\ p \in Publishers
    /\ pubPc[p] = "delivering"
    /\ pubPending[p] = {}
    /\ pubPc' = [pubPc EXCEPT ![p] = "done"]
    /\ pubSnap' = [pubSnap EXCEPT ![p] = {}]
    /\ pubDelivered' = [pubDelivered EXCEPT ![p] = {}]
    /\ pubAbandoned' = [pubAbandoned EXCEPT ![p] = {}]
    /\ UNCHANGED <<lock, hasObservers, observers, hasState, task_state, queue, placed, subPc,
                   pubPending, cleanupPc, discarded, outsideObs>>

\* cleanup_task lines 152-162, after the sleep: notify(stream_end).  When the
\* snapshot is empty notify returns without suspending, the lock is free and
\* the deletion of lines 158-162 follows at once.
CleanupNotify ==
    /\ cleanupPc = "sleeping"
    /\ lock = 0
    /\ IF hasObservers /\ observers # <<>>
       THEN /\ NotifyBegin(0)
            /\ cleanupPc' = "notifying"
            /\ UNCHANGED <<hasObservers, observers, discarded>>
       ELSE /\ pubPc[0] = "idle"
            /\ pubPc' = [pubPc EXCEPT ![0] = "done"]
            /\ cleanupPc' = "done"
            /\ hasObservers' = FALSE
            /\ observers' = <<>>
            /\ hasState' = FALSE
            /\ task_state' = PendingState
            /\ discarded' = {}
            /\ UNCHANGED <<pubSnap, pubPending>>
    /\ UNCHANGED <<lock, queue, placed, subPc, pubDelivered, pubAbandoned, outsideObs>>

\* cleanup_task lines 157-164: notify has returned; the registry entry and
\* the task state are deleted under the lock.
CleanupDiscard ==
    /\ cleanupPc = "notifying"
    /\ pubPending[0] = {}
    /\ lock = 0
    /\ pubPc' = [pubPc EXCEPT ![0] = "done"]
    /\ pubSnap' = [pubSnap EXCEPT ![0] = {}]
    /\ pubDelivered' = [pubDelivered EXCEPT ![0] = {}]
    /\ pubAbandoned' = [pubAbandoned EXCEPT ![0] = {}]
    /\ discarded' = Range(observers) \ pubSnap[0]
    /\ hasObservers' = FALSE
    /\ observers' = <<>>
    /\ hasState' = FALSE
    /\ task_state' = PendingState
    /\ cleanupPc' = "done"
    /\ UNCHANGED <<lock, queue, placed, subPc, pubPending, outsideObs>>

ObsIdle ==
    /\ lock = 0
    /\ hasObservers = FALSE
    /\ observers = <<>>
    /\ hasState = FALSE
    /\ task_state = PendingState
    /\ queue = [q \in Subscribers |-> <<>>]
    /\ placed = [q \in Subscribers |-> "none"]
    /\ subPc = [s \in Subscribers |-> "idle"]
    /\ pubPc = [p \in NotifyCalls |-> "idle"]
    /\ pubSnap = [p \in NotifyCalls |-> {}]
    /\ pubPending = [p \in NotifyCalls |-> {}]
    /\ pubDelivered = [p \in NotifyCalls |-> {}]
    /\ pubAbandoned = [p \in NotifyCalls |-> {}]
    /\ cleanupPc = "sleeping"
    /\ discarded = {}

(***************************************************************************)
(* Cache keys and cache file names                                         *)
(***************************************************************************)
\* Strings are sequences of characters; the fixed parts of a key ("mermaid",
\* "4K_v2", ...) are single tokens, the content is made of the characters
\* the key format itself uses as separators.
ContentChars == {":", "x", "1"}
Contents == UNION {[1..n -> ContentChars] : n \in 1..MaxContentLen}
Dims == {1, 11}
Resolutions == Dims \X Dims
Voices == {1, 2}
DialogueIdSet == {1, 2}
\* floats in tenths: 10 is 1.0
Scales == {10, 8}
Durations == {10, 11}

DigitChar == <<"0", "1", "2", "3", "4", "5", "6", "7", "8", "9">>

\* str() of a non-negative integer
RECURSIVE Decimal(_)
Decimal(n) == IF n < 10 THEN <<DigitChar[n + 1]>>
              ELSE Decimal(n \div 10) \o <<DigitChar[(n % 10) + 1]>>

\* str() of a float with one decimal, given in tenths
FloatText(t) == Decimal(t \div 10) \o <<".">> \o Decimal(t % 10)

VoiceName(v) == <<"voice", DigitChar[v + 1]>>

\* hashlib.sha256(data).hexdigest(): the digest stands for its preimage
\* (no two of the inputs considered here collide).
Sha256(data) == data

\* A cache file name: <prefix>_<hex digest> or <hex digest>; the digest has
\* a fixed length, so the name determines both parts.
NoPrefix == <<>>
FileName(prefix, digest) == [prefix |-> prefix, digest |-> digest]

\* AssetRenderer._get_cache_key
AssetCacheKeyWithoutResolution(content, content_type, resolution) ==
    FileName(NoPrefix, Sha256(<<content_type, ":">> \o content \o <<":", "4K_v2">>))
AssetCacheKey(content, content_type, resolution) ==
    FileName(NoPrefix,
             Sha256(<<content_type, ":">> \o content \o <<":">> \o Decimal(resolution[1])
                    \o <<"x">> \o Decimal(resolution[2]) \o <<":", "4K_v2">>))

\* AudioProcessor._get_cache_key; dialogue_id is a string, "" and None are
\* both <<>>.
SpeechCacheKeyWithoutPrefix(text, voice_id, dialogue_id) ==
    FileName(NoPrefix, Sha256(voice_id \o <<":">> \o text))
SpeechCacheKey(text, voice_id, dialogue_id) ==
    FileName(IF dialogue_id # <<>> THEN dialogue_id ELSE NoPrefix,
             Sha256(voice_id \o <<":">> \o text))

\* AnimatedVideoRenderer._get_cache_key
VideoCacheKey(content, content_type, duration, dialogue_id) ==
    FileName(IF dialogue_id # <<>> THEN dialogue_id ELSE NoPrefix,
             Sha256(<<content_type, ":">> \o content \o <<":">> \o FloatText(duration)
                    \o <<":", "animated_v1">>))

\* The requests: a call of render_markdown, of render_mermaid (kind
\* "mermaid", scale 1.0 standalone and 0.8 embedded), of
\* _generate_single_audio, or of render_animated_content.  dialogue_id 0 is
\* an asset id that does not start with "dialogue_".
MarkdownRequests ==
    [cache : {"asset"}, kind : {"markdown"}, content : Contents, scale : {0},
     res : Resolutions, voice : {0}, duration : {0}, dialogue_id : {0}]
MermaidRequests ==
    [cache : {"asset"}, kind : {"mermaid"}, content : Contents, scale : Scales,
     res : Resolutions, voice : {0}, duration : {0}, dialogue_id : {0}]
AudioRequests ==
    [cache : {"audio"}, kind : {"speech"}, content : Contents, scale : {0},
     res : {<<0, 0>>}, voice : Voices, duration : {0}, dialogue_id : DialogueIdSet]
VideoRequests ==
    [cache : {"video"}, kind : {"markdown", "mermaid"}, content : Contents, scale : {0},
     res : {<<0, 0>>}, voice : {0}, duration : Durations, dialogue_id : DialogueIdSet \cup {0}]
CacheRequests == MarkdownRequests \cup MermaidRequests \cup AudioRequests \cup VideoRequests

\* render_animated_content lines 72-75
DialogueIdOf(r) == IF r.dialogue_id = 0 THEN <<>> ELSE Decimal(r.dialogue_id)

\* The file the request looks up and produces: the cache directory and the
\* cache key computed by the call (render_markdown 195, render_mermaid 47,
\* _generate_single_audio 147, render_animated_content 78).
CachePath(r) ==
    [dir |-> r.cache,
     name |-> IF r.cache = "asset"
              THEN IF r.kind = "mermaid"
                   THEN AssetCacheKey(r.content \o FloatText(r.scale), "mermaid", r.res)
                   ELSE AssetCacheKey(r.content, "markdown", r.res)
              ELSE IF r.cache = "audio"
              THEN SpeechCacheKey(r.content, VoiceName(r.voice), DialogueIdOf(r))
              ELSE VideoCacheKey(r.content, r.kind, r.duration, DialogueIdOf(r))]

\* The first request finds the cache empty and its producer stores the file.
KeyStoreFirst ==
    /\ kPc = "fresh"
    /\ kFiles' = kFiles \cup {CachePath(kPair[1])}
    /\ kPc' = "stored"
    /\ UNCHANGED <<kPair, kSecond, outsideKeys>>

\* The second request looks its file up (_get_cached_path, _get_cached_audio,
\* _get_cached_video).
KeyLookupSecond ==
    /\ kPc = "stored"
    /\ kSecond' = IF CachePath(kPair[2]) \in kFiles THEN "hit" ELSE "miss"
    /\ kPc' = "done"
    /\ UNCHANGED <<kPair, kFiles, outsideKeys>>

KeysIdle ==
    /\ kPair = <<>>
    /\ kPc = "fresh"
    /\ kFiles = {}
    /\ kSecond = "none"

KeysInit ==
    /\ kPair \in {pr \in CacheRequests \X CacheRequests : pr[1].cache = pr[2].cache}
    /\ kPc = "fresh"
    /\ kFiles = {}
    /\ kSecond = "none"

(***************************************************************************)
(* The cache directories under concurrent calls                            *)
(***************************************************************************)
\* Calls of render_markdown, render_mermaid, _generate_single_audio and
\* render_animated_content that run in the same event loop (render tasks of
\* one run, runs of several tasks) on the shared cache directories.
Callers == 1..MaxCallers

NoRequest == [cache |-> "none", kind |-> "none", content |-> <<>>, scale |-> 0,
              res |-> <<0, 0>>, voice |-> 0, duration |-> 0, dialogue_id |-> 0]

\* One request per producer.
StoreRequests ==
    {r \in CacheRequests :
        /\ r.content = <<"1">>
        /\ r.res \in {<<1, 1>>, <<0, 0>>}
        /\ r.scale \in {0, 10}
        /\ r.voice \in {0, 1}
        /\ r.duration \in {0, 10}
        /\ r.dialogue_id \in {0, 1}
        /\ r.cache = "video" => r.kind = "markdown" /\ r.dialogue_id = 1}
StorePaths == {CachePath(r) : r \in StoreRequests}

\* _get_cached_path, _get_cached_audio, _get_cached_video: cache_path.exists()
LookupAlwaysMisses(path) == FALSE
Lookup(path) == files[path] # "absent"

\* _post_process_image on the file at the path: the image is scaled to the
\* canvas minus the margin and centred; a file that is already normalized
\* is scaled down once more.
PostProcessed(state) ==
    IF state = "raw" THEN "final" ELSE "renormalized"

\* The call: the cache lookup of lines 47-50 (render_mermaid), 195-198
\* (render_markdown), 147-153 (_generate_single_audio), 78-81
\* (render_animated_content).  A hit returns the path (the audio hit after
\* probing the duration); a miss goes on to the producer.  The calls are
\* numbered in the order in which they are made.
StoreCall(c, r) ==
    /\ stPc[c] = "idle"
    /\ \A b \in Callers : b < c => stPc[b] # "idle"
    /\ stReq' = [stReq EXCEPT ![c] = r]
    /\ IF Lookup(CachePath(r))
       THEN /\ stHit' = [stHit EXCEPT ![c] = TRUE]
            /\ IF r.cache = "audio"
               THEN /\ stPc' = [stPc EXCEPT ![c] = "probing"]
                    /\ UNCHANGED stGot
               ELSE /\ stPc' = [stPc EXCEPT ![c] = "returned"]
                    /\ stGot' = [stGot EXCEPT ![c] = files[CachePath(r)]]
       ELSE /\ stPc' = [stPc EXCEPT ![c] = "tool"]
            /\ UNCHANGED <<stHit, stGot>>
    /\ UNCHANGED <<files, stWrote, outsideStore>>

\* ffmpeg opens its output file, which is the cache path
\* (animated_video_renderer.py lines 170-181, with -y), and writes the clip
\* into it while it transcodes.  The images are taken to appear complete
\* when mmdc or the screenshot ends.
ToolWrites(c) ==
    /\ stPc[c] = "tool"
    /\ stReq[c].cache = "video"
    /\ ~stWrote[c]
    /\ stWrote' = [stWrote EXCEPT ![c] = TRUE]
    /\ files' = [files EXCEPT ![CachePath(stReq[c])] = "partial"]
    /\ UNCHANGED <<stReq, stPc, stHit, stGot, outsideStore>>

\* The tool ends with success: the file is complete at the cache path
\* (asset_renderer.py lines 59 and 205).  An image is not yet normalized; the
\* audio bytes are written in one step after the response was read
\* (audio_processor.py lines 178-186).
ToolSucceeds(c) ==
    /\ stPc[c] = "tool"
    /\ stWrote[c] \/ stReq[c].cache # "video"
    /\ files' = [files EXCEPT ![CachePath(stReq[c])] =
                    IF stReq[c].cache = "asset" THEN "raw" ELSE "final"]
    /\ stPc' = [stPc EXCEPT ![c] = IF stReq[c].cache = "audio" THEN "probing" ELSE "resuming"]
    /\ UNCHANGED <<stReq, stWrote, stHit, stGot, outsideStore>>

\* The tool ends with a failure, before or after it has created its output
\* file: render_mermaid falls back to the error slide (lines 122-130), the
\* other producers raise (audio_processor.py lines 179-196,
\* animated_video_renderer.py lines 193-195).  No handler removes the file.
ToolFails(c) ==
    /\ stPc[c] = "tool"
    /\ UNCHANGED files
    /\ stPc' = [stPc EXCEPT ![c] = IF stReq[c].cache = "asset" /\ stReq[c].kind = "mermaid"
                                   THEN "fallback" ELSE "failed"]
    /\ UNCHANGED <<stReq, stWrote, stHit, stGot, outsideStore>>

\* The coroutine is resumed after the tool (and, in render_markdown, after
\* browser.close()): an image is post-processed in place (asset_renderer.py
\* lines 133-135 and 579-583); a clip path is returned as it is
\* (animated_video_renderer.py lines 101-107).
Resume(c) ==
    /\ stPc[c] = "resuming"
    /\ LET path == CachePath(stReq[c])
       IN IF stReq[c].cache = "asset"
          THEN /\ files' = [files EXCEPT ![path] = PostProcessed(@)]
               /\ stPc' = [stPc EXCEPT ![c] = "returned"]
               /\ stGot' = [stGot EXCEPT ![c] = PostProcessed(files[path])]
          ELSE /\ stPc' = [stPc EXCEPT ![c] = "returned"]
               /\ stGot' = [stGot EXCEPT ![c] = files[path]]
               /\ UNCHANGED files
    /\ UNCHANGED <<stReq, stWrote, stHit, outsideStore>>

\* _get_audio_duration has probed the file (audio_processor.py lines 151-153
\* and 188-192); the path is returned.
Probed(c) ==
    /\ stPc[c] = "probing"
    /\ stPc' = [stPc EXCEPT ![c] = "returned"]
    /\ stGot' = [stGot EXCEPT ![c] = files[CachePath(stReq[c])]]
    /\ UNCHANGED <<files, stReq, stWrote, stHit, outsideStore>>

StoreIdle ==
    /\ files = [path \in StorePaths |-> "absent"]
    /\ stReq = [c \in Callers |-> NoRequest]
    /\ stPc = [c \in Callers |-> "idle"]
    /\ stWrote = [c \in Callers |-> FALSE]
    /\ stHit = [c \in Callers |-> FALSE]
    /\ stGot = [c \in Callers |-> "none"]

\* The cache directories persist across runs: a file may be there already.
StoreInit ==
    /\ files \in [StorePaths -> {"absent", "final"}]
    /\ stReq = [c \in Callers |-> NoRequest]
    /\ stPc = [c \in Callers |-> "idle"]
    /\ stWrote = [c \in Callers |-> FALSE]
    /\ stHit = [c \in Callers |-> FALSE]
    /\ stGot = [c \in Callers |-> "none"]

RenderIdle ==
    /\ rStack = <<>>
    /\ rRet = NoRet
    /\ rResult = "none"
    /\ rReq = [fn |-> "none", content |-> <<>>]
    /\ rCalls = 0
    /\ imageCache = {}
    /\ engineCalls = 0
    /\ engineFailed = FALSE
    /\ browserFailed = FALSE
    /\ recursionError = FALSE

AudioIdle ==
    /\ aPc = "start"
    /\ batchStart = 1
    /\ taskSt = [d \in DialogueIds |-> "none"]
    /\ taskDur = [d \in DialogueIds |-> 0]
    /\ apiPermits = ApiSemaphoreSize
    /\ audioCache = {}
    /\ results = <<>>
    /\ finishOrder = <<>>

(***************************************************************************)
(* The speaker of a dialogue: voice and on-screen indicator                *)
(***************************************************************************)
NoSpeaker == "(missing)"
SpeakerNames == {"lisa", "emma", "student", "learner", "alex", "teacher", "expert", "senior",
                 "Lisa", "ALEX", "speaker_1", "speaker_2", "host", NoSpeaker}

\* str.lower() on the names considered
Lower(name) ==
    CASE name = "Lisa" -> "lisa"
      [] name = "ALEX" -> "alex"
      [] OTHER -> name

\* dialogue.get('speaker', 'speaker_1').lower()
GetSpeakerName(name) == IF name = NoSpeaker THEN "speaker_1" ELSE Lower(name)

FirstSpeakerNames == {"lisa", "emma", "student", "learner"}
SecondSpeakerNames == {"alex", "teacher", "expert", "senior"}

\* AudioProcessor.generate_audio_tracks lines 84-92
AudioSpeaker(name, idx) ==
    IF GetSpeakerName(name) \in FirstSpeakerNames THEN "speaker_1"
    ELSE IF GetSpeakerName(name) \in SecondSpeakerNames THEN "speaker_2"
    ELSE IF idx % 2 = 0 THEN "speaker_1" ELSE "speaker_2"

\* VideoComposer.compose_video lines 92-101
ComposerSpeaker(name, idx) ==
    IF GetSpeakerName(name) \in FirstSpeakerNames THEN "speaker_1"
    ELSE IF GetSpeakerName(name) \in SecondSpeakerNames THEN "speaker_2"
    ELSE IF idx % 2 = 0 THEN "speaker_1" ELSE "speaker_2"

\* FastVideoComposer._get_visual_path lines 146-152
FastComposerSpeaker(name) ==
    IF GetSpeakerName(name) \in FirstSpeakerNames THEN "speaker_1" ELSE "speaker_2"

\* generate_audio_tracks lines 84-99: the speaker of the dialogue is mapped
\* and the voice chosen for it.
ChooseVoice ==
    /\ spkPc = "script"
    /\ voiceSpeaker' = AudioSpeaker(speaker_name, dialogue_idx)
    /\ spkPc' = "voiced"
    /\ UNCHANGED <<outsideSpk, speaker_name, dialogue_idx, hasVisualization, spkComposer,
                   indicatorSpeaker>>

\* compose_video of the composer in use: a dialogue with a visualization is
\* rendered by the animated renderer with the speaker the composer maps
\* (fast_video_composer.py lines 144-164, video_composer.py lines 91-115);
\* another dialogue gets a static image without indicator.
ShowIndicator ==
    /\ spkPc = "voiced"
    /\ indicatorSpeaker' =
          IF ~hasVisualization THEN "none"
          ELSE IF spkComposer = "fast" THEN FastComposerSpeaker(speaker_name)
          ELSE ComposerSpeaker(speaker_name, dialogue_idx)
    /\ spkPc' = "shown"
    /\ UNCHANGED <<outsideSpk, speaker_name, dialogue_idx, hasVisualization, spkComposer,
                   voiceSpeaker>>

SpkIdle ==
    /\ spkPc = "script"
    /\ speaker_name = NoSpeaker
    /\ dialogue_idx = 0
    /\ hasVisualization = FALSE
    /\ spkComposer = "fast"
    /\ voiceSpeaker = "none"
    /\ indicatorSpeaker = "none"

\* Any dialogue of a cluster, under either composer.
SpkInit ==
    /\ spkPc = "script"
    /\ speaker_name \in SpeakerNames
    /\ dialogue_idx \in 0..(ClusterSize - 1)
    /\ hasVisualization \in BOOLEAN
    /\ spkComposer \in {"fast", "moviepy"}
    /\ voiceSpeaker = "none"
    /\ indicatorSpeaker = "none"

(***************************************************************************)
(* The re-encode branch of FastVideoComposer._concatenate_smart            *)
(***************************************************************************)
\* The H.264 hardware encoders the code looks for, and the software encoder.
HardwareEncoders == {"h264_nvenc", "h264_videotoolbox", "h264_qsv"}
SoftwareEncoder == "libx264"

\* _detect_hardware_acceleration lines 428-454: the output of
\* "ffmpeg -encoders" is searched for the encoder names in a fixed order; a
\* probe that raises gives None.
DetectHardwareAcceleration(raised, output) ==
    IF raised THEN "None"
    ELSE IF "h264_nvenc" \in output THEN "nvidia"
    ELSE IF "h264_videotoolbox" \in output THEN "videotoolbox"
    ELSE IF "h264_qsv" \in output THEN "qsv"
    ELSE "None"

\* _concatenate_smart lines 318-343: the -c:v argument for each answer.
EncoderFor(accel) ==
    CASE accel = "nvidia" -> "h264_nvenc"
      [] accel = "videotoolbox" -> "h264_videotoolbox"
      [] accel = "qsv" -> "h264_qsv"
      [] OTHER -> SoftwareEncoder

\* The encoders that can encode on this machine: a hardware encoder needs
\* to be in the ffmpeg build and to find its device; ffmpeg exits nonzero
\* when told to use one that cannot open its device.
Usable(listed, present) == (listed \cap present) \cup {SoftwareEncoder}

\* _concatenate_smart line 308: hw_accel = await self._detect_hardware_acceleration().
\* The probe raises when ffmpeg cannot be started; there is no encoder list then.
DetectHardware(raised) ==
    /\ ePc = "reencode"
    /\ raised => encoders = {}
    /\ hw_accel' = DetectHardwareAcceleration(raised, encoders)
    /\ ePc' = "detected"
    /\ UNCHANGED <<outsideEnc, encoders, devices, codec>>

\* _concatenate_smart lines 310-377: the command is built with the encoder
\* of the answer and ffmpeg runs; a nonzero exit raises RuntimeError.
EncodeRun(ok) ==
    /\ ePc = "detected"
    /\ codec' = EncoderFor(hw_accel)
    /\ ePc' = IF ok /\ codec' \in Usable(encoders, devices) THEN "returned" ELSE "raised"
    /\ UNCHANGED <<outsideEnc, encoders, devices, hw_accel>>

EncIdle ==
    /\ ePc = "idle"
    /\ encoders = {}
    /\ devices = {}
    /\ hw_accel = "unset"
    /\ codec = "none"

\* The re-encode branch is entered on a machine with some ffmpeg build and
\* some devices.
EncInit ==
    /\ ePc = "reencode"
    /\ encoders \in SUBSET HardwareEncoders
    /\ devices \in SUBSET HardwareEncoders
    /\ hw_accel = "unset"
    /\ codec = "none"

ComposeIdle ==
    /\ composer = "fast"
    /\ quality = "balanced"
    /\ cPc = "idle"
    /\ k = 0
    /\ attempted = <<>>
    /\ clip_paths = <<>>
    /\ tempDir = FALSE
    /\ frame = "none"
    /\ depth = 0
    /\ concatLog = <<>>
    /\ concat_file = <<>>
    /\ extracted = "none"

InitCompose == AudioInit /\ ComposeInit /\ RenderIdle /\ OrchIdle /\ SynthIdle /\ PoolIdle /\ ExtractIdle /\ ObsIdle /\ KeysIdle /\ StoreIdle /\ EncIdle /\ SpkIdle

NextCompose ==
    \/ StartBatch
    \/ \E d \in DialogueIds : TaskCacheHit(d)
    \/ \E d \in DialogueIds : TaskCacheMiss(d)
    \/ \E d \in DialogueIds : TaskAcquire(d)
    \/ \E d \in DialogueIds : TaskSucceed(d)
    \/ \E d \in DialogueIds : TaskFail(d)
    \/ CollectBatch
    \/ AudioReturn
    \/ ComposeStart
    \/ ComposeSkip
    \/ ComposeVisualRaise
    \/ \E v \in Visuals, ok \in BOOLEAN : ComposeClip(v, ok)
    \/ ComposeNoClips
    \/ ComposeLoopDone
    \/ ConcatDispatch
    \/ \E ok \in BOOLEAN : StreamCopyRun(ok)
    \/ \E probe \in BOOLEAN : SmartProbe(probe)
    \/ \E ok \in BOOLEAN : ReencodeRun(ok)
    \/ \E ok \in BOOLEAN : MoviepyExport(ok)
    \/ \E ok \in BOOLEAN : ExtractAudio(ok)

SpecCompose == InitCompose /\ [][NextCompose]_vars

InitRender == RenderIdle /\ AudioIdle /\ ComposeIdle /\ OrchIdle /\ SynthIdle /\ PoolIdle /\ ExtractIdle /\ ObsIdle /\ KeysIdle /\ StoreIdle /\ EncIdle /\ SpkIdle

NextRender ==
    \/ \E req \in Requests : RenderCall(req)
    \/ CacheCheck
    \/ \E ok \in BOOLEAN : EngineRun(ok)
    \/ FallbackReturned
    \/ RenderBlock
    \/ BlockReturned
    \/ \E ok \in BOOLEAN : BrowserRender(ok)
    \/ RenderDone

SpecRender == InitRender /\ [][NextRender]_vars

\* C7: render_mermaid returns a valid asset path whenever the diagram engine
\* exits nonzero, after a number of engine invocations that the renderer
\* itself bounds (the interpreter's stack is never exhausted), without
\* raising.
C7_MermaidFallbackBounded ==
    (rReq.fn = "mermaid" /\ engineFailed)
    => /\ ~recursionError
       /\ ~browserFailed => rResult # "raised"

InitOrch == OrchIdle /\ RenderIdle /\ AudioIdle /\ ComposeIdle /\ SynthIdle /\ PoolIdle /\ ExtractIdle /\ ObsIdle /\ KeysIdle /\ StoreIdle /\ EncIdle /\ SpkIdle

NextOrch ==
    \/ \E ok \in BOOLEAN : OrchStart(ok)
    \/ AssetPhaseStart
    \/ \E v \in Viz : RenderAcquire(v)
    \/ \E v \in Viz : RenderOk(v)
    \/ \E v \in Viz : RenderRaise(v)
    \/ \E v \in Viz, ok \in BOOLEAN : FallbackRender(v, ok)
    \/ AssetConsume
    \/ AssetPhaseDone
    \/ AudioPhaseStart
    \/ \E ok \in BOOLEAN : AudioLine(ok)
    \/ AudioPhaseRaise
    \/ AudioPhaseDone
    \/ ComposePhaseStart
    \/ ComposeStep
    \/ ComposePhaseRaise
    \/ \E ok \in BOOLEAN : ComposeExtract(ok)
    \/ ComposePhaseDone
    \/ \E ok \in BOOLEAN : Metrics(ok)
    \/ OrchFinally
    \/ CleanupStreamEnd

SpecOrch == InitOrch /\ [][NextOrch]_vars

\* The event loop keeps running every task that can take a step: a render
\* task gets its permit, its render and its fallback render end, and
\* generate_video runs on to its end.
FairOrch ==
    /\ \A v \in Viz : WF_vars(RenderAcquire(v))
    /\ \A v \in Viz : WF_vars(RenderOk(v) \/ RenderRaise(v))
    /\ \A v \in Viz : WF_vars(\E ok \in BOOLEAN : FallbackRender(v, ok))
    /\ WF_vars(AssetConsume)
    /\ WF_vars(OrchFinally)
    /\ WF_vars(CleanupStreamEnd)

SpecOrchFair == SpecOrch /\ FairOrch

TaskFailedAt == {i \in DOMAIN events : events[i].type = "task_failed"}
PhaseNo(p) == CHOOSE n \in DOMAIN Phases : Phases[n] = p
StartsOf(p) == {i \in DOMAIN events : events[i].type = "phase_started" /\ events[i].phase = p}

\* C8: in the asset-rendering phase a render failure never fails the run:
\* no render task raises, the phase never raises, and once the phase is over
\* it has published phase_completed and recorded exactly one asset for every
\* visualization id, an error slide for each one whose render raised.
C8_RenderFailureNeverFailsRun ==
    /\ failedAt # "asset_rendering"
    /\ \A v \in Viz : vizSt[v] # "raised"
    /\ oPc \notin {"load", "asset_begin", "asset_wait"} /\ failedAt # "pre"
       => /\ Ids(visual_assets) = Viz
          /\ Len(visual_assets) = MaxViz
          /\ \E i \in DOMAIN events : /\ events[i].type = "phase_completed"
                                      /\ events[i].phase = "asset_rendering"

\* C9: when a phase of generate_video raises, exactly one task_failed is
\* published, no task_completed is published, no phase_started is published
\* after it nor for any later phase, no phase is started twice, only the
\* finally clause remains to run and generate_video ends by raising.
C9_FailureAbortsRun ==
    failedAt # "none"
    => /\ Cardinality(TaskFailedAt) = 1
       /\ \A i \in DOMAIN events : events[i].type # "task_completed"
       /\ \A i \in DOMAIN events, j \in TaskFailedAt :
              events[i].type = "phase_started" => i < j
       /\ \A p \in PhaseSet :
              /\ Cardinality(StartsOf(p)) <= 1
              /\ failedAt = "pre" => StartsOf(p) = {}
              /\ failedAt \in PhaseSet /\ PhaseNo(p) > PhaseNo(failedAt) => StartsOf(p) = {}
       /\ oPc \in {"finally", "done"}
       /\ oPc = "done" => outcome = "raised"

\* C9 witness: the audio phase raised after the asset phase had completed and
\* generate_video has ended.
C9_Witness ==
    /\ failedAt = "audio_generation"
    /\ oPc = "done"
    /\ outcome = "raised"
    /\ StartsOf("asset_rendering") # {}

\* C10 as stated: the error_phase of every task_failed is one of the three
\* phases, at every point an exception can escape, and is the failing phase
\* when the exception escapes a phase.
C10_ErrorPhaseNamesFailingPhase ==
    \A i \in TaskFailedAt :
        /\ events[i].phase \in PhaseSet
        /\ failedAt \in PhaseSet => events[i].phase = failedAt

\* C10 amended: the error_phase of task_failed is the phase most recently
\* entered: the failing phase when the exception escapes a phase,
\* video_composition when it escapes after the last phase_completed, and
\* 'unknown' when it escapes before the first phase has been entered.
C10_ErrorPhaseIsLastEnteredPhase ==
    \A i \in TaskFailedAt :
        /\ failedAt \in PhaseSet => events[i].phase = failedAt
        /\ failedAt = "post" => events[i].phase = "video_composition"
        /\ failedAt = "pre" => events[i].phase = "unknown"

\* C10 witness: an exception escaped before the first phase was entered and
\* task_failed has been published.
C10_Witness ==
    /\ failedAt = "pre"
    /\ TaskFailedAt # {}
    /\ \A p \in PhaseSet : StartsOf(p) = {}

ItemEvents == {"asset_rendered", "phase_progress", "audio_generated",
               "video_composition_progress"}
\* The events that generate_video and its tasks published, without the
\* stream_end of the cleanup.
RunEvents == SelectSeq(events, LAMBDA e : e.type # "stream_end")
EventsOf(type) == {i \in DOMAIN events : events[i].type = type}
CompletionsOf(p) ==
    {i \in DOMAIN events : events[i].type = "phase_completed" /\ events[i].phase = p}

\* C11: the phases run strictly in order: phase_started of phase k+1 is
\* published only after phase_completed of phase k, every per-item progress
\* event of a phase is published after that phase's phase_started and never
\* after its phase_completed, and task_completed is published only after
\* phase_completed of video_composition.
C11_PhasesInOrder ==
    \A i \in DOMAIN events :
        /\ events[i].type = "phase_started" /\ PhaseNo(events[i].phase) > 1
           => \E j \in CompletionsOf(Phases[PhaseNo(events[i].phase) - 1]) : j < i
        /\ events[i].type \in ItemEvents
           => /\ \E j \in StartsOf(events[i].phase) : j < i
              /\ \A j \in CompletionsOf(events[i].phase) : i < j
        /\ events[i].type = "task_completed"
           => \E j \in CompletionsOf("video_composition") : j < i

\* C11 witness: a run has published task_completed after item events of all
\* three phases.
C11_Witness ==
    /\ EventsOf("task_completed") # {}
    /\ EventsOf("asset_rendered") # {}
    /\ EventsOf("audio_generated") # {}
    /\ EventsOf("video_composition_progress") # {}

\* C12: within a phase the percentages of the phase_progress events are
\* non-decreasing in publication order (the order in which a subscriber's
\* queue receives them), and phase_started and phase_completed are each
\* published at most once per phase name.
C12_ProgressMonotone ==
    /\ \A i, j \in EventsOf("phase_progress") :
           i < j /\ events[i].phase = events[j].phase
           => events[i].pct <= events[j].pct
    /\ \A p \in PhaseSet : /\ Cardinality(StartsOf(p)) <= 1
                           /\ Cardinality(CompletionsOf(p)) <= 1

\* C12 witness: two phase_progress events of the audio phase and two of the
\* asset phase have been published and all three phases have completed.
C12_Witness ==
    /\ \E i, j \in EventsOf("phase_progress") :
           i < j /\ events[i].phase = "audio_generation" /\ events[j].phase = "audio_generation"
    /\ \E i, j \in EventsOf("phase_progress") :
           i < j /\ events[i].phase = "asset_rendering" /\ events[j].phase = "asset_rendering"
    /\ CompletionsOf("video_composition") # {}

HappyRun ==
    /\ oPc = "done"
    /\ failedAt = "none"
    /\ \A v \in Viz : vizSt[v] = "done"
    /\ tracks = Range(Script)

\* C13: a run in which every render (of the visualizations and of the final
\* video) and every synthesis succeeds publishes exactly one task_started,
\* exactly one phase_started and one phase_completed for each of the three
\* phases, one asset_rendered per visualization, one audio_generated per
\* dialogue, exactly one task_completed and no task_failed.
C13_HappyPathEvents ==
    HappyRun
    => /\ Cardinality(EventsOf("task_started")) = 1
       /\ \A p \in PhaseSet : /\ Cardinality(StartsOf(p)) = 1
                              /\ Cardinality(CompletionsOf(p)) = 1
       /\ \A v \in Viz :
              Cardinality({i \in EventsOf("asset_rendered") : events[i].item = v}) = 1
       /\ \A d \in Range(Script) :
              Cardinality({i \in EventsOf("audio_generated") : events[i].item = d}) = 1
       /\ Cardinality(EventsOf("audio_generated")) >= MaxDialogues
       /\ Cardinality(EventsOf("task_completed")) = 1
       /\ RunEvents[Len(RunEvents)].type = "task_completed"
       /\ EventsOf("task_failed") = {}

\* C13 witness: such a run has ended.
C13_Witness == HappyRun /\ outcome = "returned" /\ Len(events) > 0

InitSynth == SynthIdle /\ AudioIdle /\ ComposeIdle /\ RenderIdle /\ OrchIdle /\ PoolIdle /\ ExtractIdle /\ ObsIdle /\ KeysIdle /\ StoreIdle /\ EncIdle /\ SpkIdle

NextSynth ==
    \/ SynthStartBatch
    \/ \E d \in Lines, hit \in BOOLEAN : SynthCacheLookup(d, hit)
    \/ \E d \in Lines : SynthAcquire(d)
    \/ \E d \in Lines, ok \in BOOLEAN : SynthFinish(d, ok)
    \/ SynthCollect
    \/ SynthReturn

SpecSynth == InitSynth /\ [][NextSynth]_vars

\* C14: at every moment at most 5 synthesis requests are in flight, each of
\* them holding one of the 5 permits of the gate, for a script of more
\* than 5 lines and for every choice of cache hits.
C14_AtMostFiveInFlight ==
    /\ Cardinality(InFlight) <= 5
    /\ Cardinality(InFlight) = ApiSemaphoreSize - sPermits

\* C14 witness: 5 requests of the first batch are in flight at once while a
\* sixth line of the script is still to be synthesized.
C14_Witness ==
    /\ Cardinality(InFlight) = 5
    /\ \E d \in Lines : sSt[d] = "none"

InitPool == PoolIdle /\ AudioIdle /\ ComposeIdle /\ RenderIdle /\ OrchIdle /\ SynthIdle /\ ExtractIdle /\ ObsIdle /\ KeysIdle /\ StoreIdle /\ EncIdle /\ SpkIdle

NextPool ==
    \/ \E v \in PoolTasks : PoolAcquire(v)
    \/ \E v \in PoolTasks, ok \in BOOLEAN : PoolRenderEnds(v, ok)
    \/ \E v \in PoolTasks : PoolFallbackEnds(v)

SpecPool == InitPool /\ [][NextPool]_vars

\* The event loop runs every task that is ready (a task waiting for the
\* semaphore is woken when a permit is released), and a render that has
\* started comes to an end.
PoolFairness ==
    \A v \in PoolTasks :
        /\ WF_vars(PoolAcquire(v))
        /\ WF_vars(\E ok \in BOOLEAN : PoolRenderEnds(v, ok))
        /\ WF_vars(PoolFallbackEnds(v))

SpecPoolFair == SpecPool /\ PoolFairness

\* C15: at every moment at most 5 renders (fallback renders included) are
\* executing, and every visualization's render eventually gets a slot and
\* finishes.
C15_AtMostFiveRendersAllFinish ==
    /\ [](Cardinality(Executing) <= 5)
    /\ \A v \in PoolTasks : <>(pSt[v] = "finished")

\* C15 witness: 5 renders are executing, one of them a fallback render, and
\* a sixth task waits for a slot.
C15_Witness ==
    /\ Cardinality(Executing) = 5
    /\ \E v \in PoolTasks : pSt[v] = "fallback"
    /\ \E v \in PoolTasks : pSt[v] = "queued"

InitExtract ==
    ExtractInit /\ AudioIdle /\ ComposeIdle /\ RenderIdle /\ OrchIdle /\ SynthIdle /\ PoolIdle /\ ObsIdle /\ KeysIdle /\ StoreIdle /\ EncIdle /\ SpkIdle

NextExtract ==
    \/ ExtractVisualizations
    \/ CreateRenderTasks

SpecExtract == InitExtract /\ [][NextExtract]_vars

\* C16: the asset phase launches one render per distinct visual description:
\* no two render tasks have the same kind and content (all renders of a phase
\* have the same resolution).
C16_OneRenderPerDescription ==
    \A i, j \in DOMAIN xTasks : xTasks[i].viz = xTasks[j].viz => i = j

InitObs ==
    /\ ObsIdle /\ KeysIdle /\ StoreIdle /\ EncIdle /\ SpkIdle /\ AudioIdle /\ ComposeIdle /\ RenderIdle /\ OrchIdle /\ SynthIdle /\ PoolIdle
    /\ ExtractIdle

NextObs ==
    \/ \E s \in Subscribers : SubscribeEnter(s)
    \/ \E s \in Subscribers : SubscribeGreet(s)
    \/ \E s \in Subscribers : Consume(s)
    \/ \E s \in Subscribers : Unsubscribe(s)
    \/ \E p \in Publishers : Publish(p)
    \/ \E p \in NotifyCalls, q \in Subscribers : DeliverPut(p, q)
    \/ \E p \in NotifyCalls, q \in Subscribers : DeliverTimeout(p, q)
    \/ \E p \in Publishers : NotifyReturn(p)
    \/ CleanupNotify
    \/ CleanupDiscard

SpecObs == InitObs /\ [][NextObs]_vars

\* The event loop runs every ready coroutine: a subscribe that holds the lock
\* completes, every _notify_single ends (with a put or, after the timeout of
\* wait_for, without), the gather and the cleanup go on.
ObsFairness ==
    /\ \A s \in Subscribers : WF_vars(SubscribeGreet(s))
    /\ \A p \in NotifyCalls, q \in Subscribers :
           WF_vars(DeliverPut(p, q) \/ DeliverTimeout(p, q))
    /\ \A p \in Publishers : WF_vars(NotifyReturn(p))
    /\ WF_vars(CleanupDiscard)

SpecObsFair == SpecObs /\ ObsFairness

\* C17: the first message ever placed in a queue returned by subscribe is
\* connection_established, also while notify calls for the task are in
\* progress; the queue never holds more than its maximum size.
C17_ConnectionEstablishedFirst ==
    \A q \in Subscribers :
        /\ placed[q] \in {"none", "connection_established"}
        /\ Len(queue[q]) <= QueueMaxSize

\* C17 witness: a subscriber was registered and greeted while a notify call
\* that had taken its snapshot before was still delivering.
C17_Witness ==
    \E s \in Subscribers, p \in Publishers :
        /\ subPc[s] = "subscribed"
        /\ placed[s] = "connection_established"
        /\ pubPc[p] = "delivering"
        /\ pubSnap[p] # {}
        /\ s \notin pubSnap[p]

\* C18: a notify call returns only when it has handled every queue of its
\* snapshot: each took the message or was given up; a queue is given up only
\* while it is full, a queue with room gets the message appended, giving up
\* one queue leaves the other deliveries alone; and every notify call that
\* has started delivering returns.
C18_PublishFansOutAndReturns ==
    /\ [](\A p \in NotifyCalls : pubDelivered[p] \cap pubAbandoned[p] = {})
    /\ [][\A p \in NotifyCalls :
              pubPc[p] = "delivering" /\ pubPc'[p] = "done"
              => pubDelivered[p] \cup pubAbandoned[p] = pubSnap[p]]_vars
    /\ [][\A p \in NotifyCalls, q \in Subscribers :
              /\ q \in pubAbandoned'[p] \ pubAbandoned[p] => ~HasRoom(q)
              /\ q \in pubDelivered'[p] \ pubDelivered[p]
                 => HasRoom(q) /\ queue'[q] = Append(queue[q], EventOf(p))
              /\ q \in pubPending[p] /\ HasRoom(q) /\ q \notin pubPending'[p]
                 => q \in pubDelivered'[p]]_vars
    /\ \A p \in NotifyCalls : (pubPc[p] = "delivering") ~> (pubPc[p] = "done")

\* C18 witness: a notify call is about to return after giving up a full
\* queue and delivering to another queue of the same snapshot.
C18_Witness ==
    \E p \in NotifyCalls :
        /\ pubPc[p] = "delivering"
        /\ pubPending[p] = {}
        /\ pubAbandoned[p] # {}
        /\ pubDelivered[p] # {}

\* C19: every queue that is in the registry entry at the moment cleanup_task
\* deletes it was in the snapshot of the stream_end notification.
C19_StreamEndBeforeDiscard ==
    cleanupPc = "done" => discarded = {}

\* C20: once cleanup_task has run, the observer holds neither a registry
\* entry nor a task state for the task, whatever calls arrive afterwards.
C20_NothingHeldAfterCleanup ==
    cleanupPc = "done" => ~hasObservers /\ ~hasState

InitKeys ==
    /\ KeysInit /\ StoreIdle /\ EncIdle /\ SpkIdle /\ ObsIdle /\ AudioIdle /\ ComposeIdle /\ RenderIdle /\ OrchIdle /\ SynthIdle
    /\ PoolIdle /\ ExtractIdle

NextKeys == KeyStoreFirst \/ KeyLookupSecond

SpecKeys == InitKeys /\ [][NextKeys]_vars

InitStore ==
    /\ StoreInit /\ EncIdle /\ SpkIdle /\ KeysIdle /\ ObsIdle /\ AudioIdle /\ ComposeIdle /\ RenderIdle /\ OrchIdle
    /\ SynthIdle /\ PoolIdle /\ ExtractIdle

NextStore ==
    \/ \E c \in Callers, r \in StoreRequests : StoreCall(c, r)
    \/ \E c \in Callers : ToolWrites(c)
    \/ \E c \in Callers : ToolSucceeds(c)
    \/ \E c \in Callers : ToolFails(c)
    \/ \E c \in Callers : Resume(c)
    \/ \E c \in Callers : Probed(c)

SpecStore == InitStore /\ [][NextStore]_vars

InitEnc ==
    /\ EncInit /\ SpkIdle /\ StoreIdle /\ KeysIdle /\ ObsIdle /\ AudioIdle /\ ComposeIdle /\ RenderIdle /\ OrchIdle
    /\ SynthIdle /\ PoolIdle /\ ExtractIdle

NextEnc ==
    \/ \E raised \in BOOLEAN : DetectHardware(raised)
    \/ \E ok \in BOOLEAN : EncodeRun(ok)

SpecEnc == InitEnc /\ [][NextEnc]_vars

InitSpk ==
    /\ SpkInit /\ EncIdle /\ StoreIdle /\ KeysIdle /\ ObsIdle /\ AudioIdle /\ ComposeIdle /\ RenderIdle
    /\ OrchIdle /\ SynthIdle /\ PoolIdle /\ ExtractIdle

NextSpk ==
    \/ ChooseVoice
    \/ ShowIndicator

SpecSpk == InitSpk /\ [][NextSpk]_vars

\* C39: when a dialogue is shown with a speaker indicator, the indicator is
\* that of the speaker whose voice AudioProcessor chose for the dialogue,
\* whatever the speaker name and the position of the dialogue.
C39_IndicatorSpeakerIsVoiceSpeaker ==
    spkPc = "shown" /\ indicatorSpeaker # "none" => indicatorSpeaker = voiceSpeaker

\* The step in which the unsubscribe call of subscriber s runs.
Unsubscribes(s) == subPc[s] = "subscribed" /\ subPc'[s] = "closed"

SameDigestInputs ==
    LET a == kPair[1]
        b == kPair[2]
    IN  /\ a.cache = b.cache
        /\ a.kind = b.kind /\ a.content = b.content /\ a.scale = b.scale
        /\ a.res = b.res /\ a.voice = b.voice /\ a.duration = b.duration

\* C24: the lookup of a static render request misses the file of another
\* static render request that differs from it in kind, content or target
\* resolution, and the lookup of an animated render request misses the file
\* of a request with the same content and another duration.
C24_DistinctInputsDistinctEntries ==
    kPc = "done" =>
        LET a == kPair[1]
            b == kPair[2]
        IN  /\ a.cache = "asset" /\ (a.kind # b.kind \/ a.content # b.content \/ a.res # b.res)
               => kSecond = "miss"
            /\ a.cache = "video" /\ a.content = b.content /\ a.duration # b.duration
               => kSecond = "miss"

\* C24 witness: two static requests of the same kind and content for
\* different resolutions, the second lookup done.
C24_Witness ==
    /\ kPc = "done"
    /\ kPair[1].cache = "asset"
    /\ kPair[1].kind = kPair[2].kind /\ kPair[1].content = kPair[2].content
    /\ kPair[1].res # kPair[2].res
    /\ kSecond = "miss"

\* C25 as claimed: an audio or animated-clip request whose digest inputs
\* equal those of the stored one and whose dialogue id differs is a cache hit.
C25_DialogueIdNotPartOfKey ==
    /\ kPc = "done"
    /\ kPair[1].cache \in {"audio", "video"}
    /\ SameDigestInputs
    /\ kPair[1].dialogue_id # kPair[2].dialogue_id
    => kSecond = "hit"

\* C25 amended: an audio or animated-clip request hits the stored file
\* exactly if its digest inputs and its dialogue id both equal those of the
\* stored request.
C25_DialogueIdIsPartOfFileName ==
    kPc = "done" /\ kPair[1].cache \in {"audio", "video"}
    => (kSecond = "hit"
        <=> SameDigestInputs /\ kPair[1].dialogue_id = kPair[2].dialogue_id)

\* C25 witness: two synthesis requests for the same text and voice under
\* different dialogue ids; the second one missed.
C25_Witness ==
    /\ kPc = "done"
    /\ kPair[1].cache = "audio"
    /\ SameDigestInputs
    /\ kPair[1].dialogue_id # kPair[2].dialogue_id
    /\ kSecond = "miss"

\* The calls made so far for a cache file.
CallsFor(path) == {c \in Callers : stPc[c] # "idle" /\ CachePath(stReq[c]) = path}
Unsuccessful(c) == stPc[c] \in {"failed", "fallback"}

\* C22: a cache file for which every producer run so far has failed does
\* not exist, so that the lookup of the next request misses and the
\* producer is invoked again.
C22_NoNegativeCaching ==
    \A path \in StorePaths :
        /\ CallsFor(path) # {}
        /\ \A c \in CallsFor(path) : Unsuccessful(c)
        => ~Lookup(path)

\* C23: the file of a call that has returned exists; a call made while the
\* file exists returns the path of that file from the lookup, without
\* running the producer; and no step removes a file.
C23_CachedPathReturnedAndKept ==
    /\ [](\A c \in Callers : stPc[c] = "returned" => Lookup(CachePath(stReq[c])))
    /\ [][\A c \in Callers, path \in StorePaths :
            stPc[c] = "idle" /\ stPc'[c] # "idle" /\ CachePath(stReq'[c]) = path
            /\ files[path] # "absent"
            => stHit'[c] /\ stPc'[c] \in {"returned", "probing"} /\ files' = files]_vars
    /\ [][\A c \in Callers : stHit[c] => stPc'[c] \notin {"tool", "resuming"}]_vars
    /\ [][\A path \in StorePaths : files[path] # "absent" => files'[path] # "absent"]_vars

\* C23 witness: a call has produced and returned a file and a later call
\* with the same request has returned from the lookup.
C23_Witness ==
    \E c, d \in Callers :
        /\ c < d
        /\ stReq[c] = stReq[d]
        /\ stPc[c] = "returned" /\ ~stHit[c]
        /\ stPc[d] = "returned" /\ stHit[d]
        /\ stGot[d] = "final"

\* C26: the image whose path a render call returns, from the lookup or from
\* the producer, is completely written and normalized once at that moment.
C26_ReturnedFilesAreComplete ==
    \A c \in Callers :
        stPc[c] = "returned" /\ stReq[c].cache = "asset" => stGot[c] = "final"

\* The video artifact was written (compose_video has reached the audio-only
\* extraction) and is there when generate_video reads its size.
ArtifactProduced == podcast # "none" /\ failedAt # "post"

\* C27: once the video artifact is produced the run does not fail, whether
\* the audio-only extraction succeeded or failed: compose_video returns,
\* phase_completed of the composition is published and the run ends with
\* task_completed as its last event.
C27_ExtractionFailureNotFatal ==
    /\ ArtifactProduced => failedAt = "none" /\ EventsOf("task_failed") = {}
    /\ ArtifactProduced /\ oPc \in {"metrics", "finally", "done"}
       => CompletionsOf("video_composition") # {}
    /\ ArtifactProduced /\ oPc = "done"
       => /\ outcome = "returned"
          /\ RunEvents[Len(RunEvents)].type = "task_completed"

\* C27 witness: a run has ended in which the audio-only extraction failed.
C27_Witness ==
    /\ oPc = "done"
    /\ podcast = "failed"
    /\ outcome = "returned"

RECURSIVE SumDur(_)
SumDur(seq) == IF seq = <<>> THEN 0 ELSE seq[1].dur + SumDur(Tail(seq))

\* generate_video line 92: the duration that task_completed and the result
\* report is the sum over the audio tracks of the synthesis result.
TotalDuration(audio_tracks) == SumDur(audio_tracks)

\* The clips named in the concat list, in that order, as ffmpeg joins them
\* (with -c copy or re-encoded: neither changes a clip's length).
Concatenated == SelectSeq(clip_paths, LAMBDA c : c.id \in Range(concat_file))

\* C28: when compose_video has returned the artifact, the duration reported
\* for it is the sum of the durations of the clips that were concatenated.
C28_ReportedDurationIsSumOfClips ==
    cPc = "returned" => TotalDuration(results) = SumDur(Concatenated)

\* The preference order of the encoders, most preferred first.
PreferenceOrder == <<"h264_nvenc", "h264_videotoolbox", "h264_qsv", "libx264">>

FirstAvailable(available) ==
    PreferenceOrder[CHOOSE i \in 1..Len(PreferenceOrder) :
                       /\ PreferenceOrder[i] \in available
                       /\ \A j \in 1..(i - 1) : PreferenceOrder[j] \notin available]

\* C29: on the re-encode path the encoder handed to ffmpeg is the first one
\* of the preference order that is available on the machine, so that an
\* unavailable preferred encoder is passed over instead of failing the run.
C29_FirstAvailableEncoderChosen ==
    codec # "none" => codec = FirstAvailable(Usable(encoders, devices))

\* The step in which the exception of a render task escapes the phase.
AssetPhaseFails == failedAt # "asset_rendering" /\ failedAt' = "asset_rendering"

RenderEnded == {"done", "slide", "raised"}

\* C30: when a render task's failure escapes the asset-rendering phase, the
\* run is terminated (task_failed, then only the finally clause) and the
\* other render tasks are not cancelled: that step leaves each of them as
\* it was, and each one still goes on to return or to raise by itself.
C30_PeersRunOnAfterFailure ==
    /\ [][AssetPhaseFails => vizSt' = vizSt]_vars
    /\ [](failedAt = "asset_rendering"
          => oPc \in {"finally", "done"} /\ EventsOf("task_failed") # {})
    /\ (failedAt = "asset_rendering")
          ~> (oPc = "done" /\ outcome = "raised" /\ \A v \in Viz : vizSt[v] \in RenderEnded)

\* C30 witness: the run has ended with the failure of a render task while
\* another render task is still rendering.
C30_Witness ==
    /\ failedAt = "asset_rendering"
    /\ oPc = "done"
    /\ \E v \in Viz : vizSt[v] = "rendering"

\* C37: when compose_video returns the artifact, every dialogue that has an
\* audio track in the synthesis result has exactly one clip in the
\* concatenation list; a failed assembly step does not leave a clip out of a
\* composition that returns.
C37_EveryTrackHasOneClip ==
    cPc = "returned"
    => \A d \in Ids(results) :
          Cardinality({i \in DOMAIN concat_file : concat_file[i] = d}) = 1

\* C34: when FastVideoComposer.compose_video has returned or raised, after
\* any outcome of clip assembly, concatenation and audio extraction, the
\* run's temporary directory is gone; no step of the composition removes an
\* entry of the audio cache or of the image cache.
C34_TempDirRemovedCachesKept ==
    /\ [](composer = "fast" /\ cPc \in {"returned", "raised"} => ~tempDir)
    /\ [][cPc # "idle" => /\ audioCache \subseteq audioCache'
                          /\ imageCache \subseteq imageCache']_vars

\* C34 witness: the composition raised after clips had been written to the
\* temporary directory, with tracks in the audio cache.
C34_Witness ==
    /\ composer = "fast"
    /\ cPc = "raised"
    /\ clip_paths # <<>>
    /\ audioCache # {}
    /\ ~tempDir

\* The synthesis has failed for every dialogue and generate_audio_tracks
\* has returned its (empty) result to the audio phase.
AllSynthesisFailed ==
    /\ tracks = {}
    /\ oPc \in {"compose_begin", "compose_run", "metrics", "finally", "done"}
    /\ failedAt \notin {"pre", "asset_rendering", "audio_generation"}

\* C38: if synthesis fails for every dialogue the audio phase still
\* publishes phase_completed, the composition phase is entered and fails,
\* and the run ends with exactly one task_failed, whose error_phase is
\* video_composition, and without task_completed.
C38_NoTracksFailsInComposition ==
    AllSynthesisFailed
    => /\ CompletionsOf("audio_generation") # {}
       /\ EventsOf("task_completed") = {}
       /\ oPc \notin {"compose_begin", "metrics"} => StartsOf("video_composition") # {}
       /\ oPc # "metrics"
       /\ oPc \in {"finally", "done"}
          => /\ failedAt = "video_composition"
             /\ Cardinality(EventsOf("task_failed")) = 1
             /\ \A i \in EventsOf("task_failed") : events[i].phase = "video_composition"
       /\ oPc = "done" => outcome = "raised"

\* C38 witness: a run in which no dialogue got a track has ended.
C38_Witness ==
    /\ AllSynthesisFailed
    /\ oPc = "done"
    /\ failedAt = "video_composition"

TerminalEvents == EventsOf("task_completed") \cup EventsOf("task_failed")

\* C35: a generate_video run publishes exactly one terminal event
\* (task_completed or task_failed, never both, never neither), schedules
\* exactly one cleanup whatever its outcome, and exactly one stream_end is
\* published, after the terminal event.
C35_OneTerminalEventOneStreamEnd ==
    /\ [](/\ Cardinality(TerminalEvents) <= 1
          /\ oPc \in {"finally", "done"} => Cardinality(TerminalEvents) = 1
          /\ cleanups = IF oPc = "done" THEN 1 ELSE 0
          /\ Cardinality(EventsOf("stream_end")) <= 1
          /\ \A i \in EventsOf("stream_end") : \E j \in TerminalEvents : j < i)
    /\ (oPc = "done") ~> (Cardinality(EventsOf("stream_end")) = 1)

\* C35 witness: a run that failed has ended and its stream_end is published.
C35_Witness ==
    /\ oPc = "done"
    /\ outcome = "raised"
    /\ EventsOf("task_failed") # {}
    /\ EventsOf("stream_end") # {}

\* C36: after task_failed or task_completed has been published for the
\* task, the only event published for it is stream_end.
C36_OnlyStreamEndAfterTerminal ==
    \A i \in TerminalEvents, j \in DOMAIN events :
        j > i => events[j].type = "stream_end"

BatchNo(d) == (d - 1) \div BatchSize

\* C31: no task of batch k+1 exists before every task of batch k has ended,
\* and the progress reports of the audio phase name the successful lines in
\* script order with `current` going up by exactly 1, in whatever order the
\* requests of a batch ended.
C31_BatchesSequentialReportsInOrder ==
    /\ \A d, e \in Lines :
          BatchNo(d) < BatchNo(e) /\ sSt[e] # "none" => sSt[d] \in {"ok", "failed"}
    /\ \A i \in DOMAIN sReported :
          /\ sReported[i].current = i
          /\ sSt[sReported[i].item] = "ok"
          /\ \A j \in DOMAIN sReported : i < j => sReported[i].item < sReported[j].item
    /\ sPc = "returned" => {sReported[i].item : i \in DOMAIN sReported} = {d \in Lines : sSt[d] = "ok"}

\* C31 witness: the run is over; lines of both batches were reported, a line
\* of the first batch failed, and two successful lines of one batch ended in
\* the reverse of their script order.
C31_Witness ==
    /\ sPc = "returned"
    /\ \E i, j \in DOMAIN sReported : BatchNo(sReported[i].item) # BatchNo(sReported[j].item)
    /\ \E d \in LineBatch(1) : sSt[d] = "failed"
    /\ \E i, j \in DOMAIN sDone :
          /\ i < j /\ sDone[i] > sDone[j] /\ BatchNo(sDone[i]) = BatchNo(sDone[j])
          /\ sSt[sDone[i]] = "ok" /\ sSt[sDone[j]] = "ok"

\* The event types published for the task so far.
PublishedSoFar == {EventOf(p) : p \in {p \in Publishers : pubPc[p] # "idle"}}

\* C32: until the task is cleaned up its state is what the reducer gives for
\* the events published so far, whether or not a subscriber was registered
\* at the time: pending before task_started, running after it, completed
\* with progress 100 after task_completed, failed after task_failed.
C32_TaskStateIsReducerResult ==
    cleanupPc = "sleeping"
    => /\ PublishedSoFar # {} => hasState
       /\ hasState /\ PublishedSoFar \cap {"task_started", "task_completed", "task_failed"} = {}
          => task_state.status = "pending"
       /\ "task_started" \in PublishedSoFar
             /\ PublishedSoFar \cap {"task_completed", "task_failed"} = {}
          => task_state.status = "running"
       /\ "task_completed" \in PublishedSoFar /\ "task_failed" \notin PublishedSoFar
          => task_state.status = "completed"
       /\ "task_failed" \in PublishedSoFar /\ "task_completed" \notin PublishedSoFar
          => task_state.status = "failed"

\* C33: the lock of the observer is held across a suspension only by a
\* subscribe that is putting its greeting into the queue it has just created,
\* which has room, so the lock is never held while a put waits on a full
\* queue; a notify call that is delivering holds no lock.  Hence the lock is
\* always released again, and every subscribe, every notify call and the
\* cleanup that have started return.
C33_LockNeverHeldWhileWaiting ==
    /\ [](lock # 0 => lock \in Subscribers /\ subPc[lock] = "greeting" /\ HasRoom(lock))
    /\ [](\A p \in NotifyCalls :
             pubPc[p] = "delivering" /\ lock # 0 => lock \notin pubSnap[p])
    /\ (lock # 0) ~> (lock = 0)
    /\ \A s \in Subscribers : (subPc[s] = "greeting") ~> (subPc[s] = "subscribed")
    /\ \A p \in Publishers : (pubPc[p] = "delivering") ~> (pubPc[p] = "done")
    /\ (cleanupPc = "notifying") ~> (cleanupPc = "done")

\* C33 witness: a subscribe holds the lock while a notify call is waiting on
\* the full queue of another subscriber.
C33_Witness ==
    \E s \in Subscribers, p \in NotifyCalls :
        /\ lock = s
        /\ subPc[s] = "greeting"
        /\ pubPc[p] = "delivering"
        /\ \E q \in pubPending[p] : ~HasRoom(q)

====
